---- MODULE Spec2Model ----
(***************************************************************************)
(* QuickSight: the prefetch-and-cache subsystem of the browser add-on.     *)
(*   - QuickSightCache        (src/src/utils/cache.js)                     *)
(*   - VideoPreloader         (src/src/utils/preloader.js)                 *)
(*   - QuickSightBackground   (src/src/background/service-worker.js)       *)
(* JavaScript runs each handler to its first await without interleaving,   *)
(* so one action is one such run-to-completion turn.                       *)
(***************************************************************************)
EXTENDS Integers, Sequences, FiniteSets, Bags, TLC

\* ---------------------------------------------------------------- bounds
\* largest reading of Date.now() the cache model explores
MaxTime == 2
\* cap on hitCount, missCount and accessCount
MaxCount == 1
\* longest request queue a call of preloadVideos may leave behind
MaxQueue == 2
\* furthest scroll position
MaxScroll == 1
\* most getVideoSummary messages the background worker has not answered, or has
\* answered to a sender that has not yet received the answer
MaxCallers == 3
\* most on-demand requests of the UI manager whose callback has not run
MaxOnDemand == 2

\* capacity handed to the QuickSightCache constructor
maxSize == 2

\* one key more than the capacity, so that a set can overflow it
CacheKeys == 1..(maxSize + 1)
Values == {"s1"}
TTLs == {1}
Null == "null"

VARIABLES
  \* QuickSightCache
  qsCache,        \* this.cache: key -> item, defined on the stored keys
  accessTimes,    \* this.accessTimes: <<key, time>> pairs in Map insertion order
  hitCount,
  missCount,
  now,            \* Date.now()
  ret,            \* what the last cache operation was called with and returned
  \* the page
  page,           \* which page the content script runs on
  scrollY,        \* window.scrollY: moves every element's bounding rectangle
  \* VideoPreloader
  plCache,        \* this.cache: videoId -> {summary, timestamp, ttl}
  processingQueue,\* this.processingQueue: Set of videoIds
  requestQueue,   \* this.requestQueue: array of requests, head first
  activeRequests, \* this.activeRequests
  observing,      \* the intersectionObserver watches the page's elements
  executing,      \* the processVideoRequest calls that have not returned (a bag)
  storage,        \* chrome.storage.local: videoId -> entry stored under summary_<videoId>
  arrival,        \* the queued requests in the order queueRequest received them
  lastTurn,       \* what the last step settled and what its processRequestQueue did
  \* QuickSightBackground
  bgCache,        \* this.cache: entries {key, data, timestamp, ttl} in Map insertion order
  pendingRequests,\* this.pendingRequests: the keys that hold a promise
  handlers,       \* the handleMessage calls waiting on a promise (a bag)
  outbox,         \* the answers passed to sendResponse that their senders have not received
  cycle,          \* per cache key, since the cache last had no entry for it: the messages
                  \* handled, the processVideoSummary calls, the answers and their payloads
  succeeded,      \* the videoIds for which processVideoSummary has produced a summary
  \* QuickSightUIManager and the document
  attached,       \* the video elements that are in the document
  injected,       \* the elements that hold a .quicksight-container with its button
  videoRegistry,  \* this.videoRegistry: videoId -> {element, status, quickSummary}
  processedElements, \* this.processedElements
  isInitialized,  \* this.isInitialized; the mutationObserver is connected while it holds
  listening,      \* setupEventDelegation has added the click listener
  onDemand,       \* the videoIds of the on-demand messages whose callback has not run (a bag)
  uiTurn,         \* what the last step of the UI manager was and what it met
  \* VideoPreloader.getCachedSummary
  reading,        \* the videoIds whose getCachedSummary call awaits chrome.storage.local.get
  got,            \* the last getCachedSummary call that returned, and what it returned
  \* YouTubeInjector and the window's globals
  isEnabled,      \* this.isEnabled
  injectorInitialized, \* this.isInitialized of the injector
  initializationPromise, \* this.initializationPromise: 0 for null, else the sequence it belongs to
  sequences,      \* the initializeInternal calls made so far, each with where it stands
  quickSightUIManager, \* window.quickSightUIManager: 0 for null, else the instance
  quickSightPreloader, \* window.quickSightPreloader: 0 for null, else the instance
  liveUIManagers, \* the QuickSightUIManager instances initialized and not destroyed
  livePreloaders, \* the VideoPreloader instances constructed and not destroyed
  \* QuickSightTooltip
  currentVideoId, \* this.currentVideoId
  isVisible,      \* this.isVisible
  isHoveringVideo,
  isHoveringTooltip,
  debounceTimeout,\* the videoId the pending debounce timer will show, or Null
  hideTimeout,    \* the hide timer is set
  awaitingSummary,\* the showInternal calls that await getSummary, by videoId (a bag)
  pane,           \* what the tooltip element shows, and for which videoId
  \* QuickSightPopup and its message to the content script
  clearing,       \* where the popup's clearCache call stands
  toast,          \* the message showToast displayed last, Null before the first
  inbox,          \* the 'clearCache' messages the content script has not handled
  replied         \* what the content script's handleMessage answered last

cacheVars == <<qsCache, accessTimes, hitCount, missCount, now, ret>>
preloaderVars == <<page, scrollY, plCache, processingQueue, requestQueue, activeRequests,
                   observing, executing, storage, arrival, lastTurn>>
backgroundVars == <<bgCache, pendingRequests, handlers, outbox, cycle, succeeded>>
uiVars == <<attached, injected, videoRegistry, processedElements, isInitialized,
            listening, onDemand, uiTurn>>
lookupVars == <<reading, got>>
popupVars == <<clearing, toast, inbox, replied>>
tooltipVars == <<currentVideoId, isVisible, isHoveringVideo, isHoveringTooltip,
                 debounceTimeout, hideTimeout, awaitingSummary, pane>>
injectorVars == <<isEnabled, injectorInitialized, initializationPromise, sequences,
                  quickSightUIManager, quickSightPreloader, liveUIManagers,
                  livePreloaders>>
vars == <<cacheVars, preloaderVars, backgroundVars, uiVars, lookupVars,
          injectorVars, tooltipVars, popupVars>>
\* what an operation of one component leaves alone
notCache == <<preloaderVars, backgroundVars, uiVars, lookupVars, injectorVars,
              tooltipVars, popupVars>>
notPreloader == <<qsCache, accessTimes, hitCount, missCount, ret, backgroundVars, uiVars,
                  lookupVars, injectorVars, tooltipVars, popupVars>>
notBackground == <<cacheVars, preloaderVars, uiVars, lookupVars, injectorVars,
                   tooltipVars, popupVars>>
notUI == <<cacheVars, preloaderVars, backgroundVars, lookupVars, injectorVars,
           tooltipVars, popupVars>>
notInjector == <<cacheVars, preloaderVars, backgroundVars, uiVars, lookupVars,
                 tooltipVars, popupVars>>
notTooltip == <<cacheVars, preloaderVars, backgroundVars, uiVars, lookupVars,
                injectorVars, popupVars>>
notPopup == <<cacheVars, page, scrollY, plCache, processingQueue, requestQueue,
              activeRequests, observing, executing, arrival, lastTurn,
              backgroundVars, uiVars, lookupVars, injectorVars, tooltipVars>>

\* ------------------------------------------------------- QuickSightCache
RECURSIVE SeqRemoveKey(_, _)
\* Map.delete on a Map kept as a sequence of <<key, x>> pairs
SeqRemoveKey(s, k) ==
  IF s = <<>> THEN <<>>
  ELSE IF Head(s)[1] = k THEN SeqRemoveKey(Tail(s), k)
       ELSE <<Head(s)>> \o SeqRemoveKey(Tail(s), k)

\* Map.set on a Map kept as a sequence: an existing key keeps its position
SeqSetKey(s, k, x) ==
  IF \E i \in 1..Len(s) : s[i][1] = k
  THEN [i \in 1..Len(s) |-> IF s[i][1] = k THEN <<k, x>> ELSE s[i]]
  ELSE Append(s, <<k, x>>)

\* Map.delete on a Map kept as a function
MapDelete(m, k) == [x \in (DOMAIN m) \ {k} |-> m[x]]

\* Map.set on a Map kept as a function
MapSet(m, k, x) == [y \in (DOMAIN m) \cup {k} |-> IF y = k THEN x ELSE m[y]]

EmptyMap == [x \in {} |-> 0]

AccessTimeOf(k) == LET i == CHOOSE j \in 1..Len(accessTimes) : accessTimes[j][1] = k
                   IN accessTimes[i][2]

\* the subtraction of the expiry test with its operands exchanged
IsExpired_Swapped(item, t) == item.timestamp - t > item.ttl

\* the expiry test of get, has and cleanup
IsExpired(item, t) == t - item.timestamp > item.ttl

RECURSIVE OldestFrom(_, _, _, _)
\* the loop of evictLRU: first key whose time is strictly below the running minimum
OldestFrom(s, i, oldestKey, oldestTime) ==
  IF i > Len(s) THEN oldestKey
  ELSE IF s[i][2] < oldestTime
       THEN OldestFrom(s, i + 1, s[i][1], s[i][2])
       ELSE OldestFrom(s, i + 1, oldestKey, oldestTime)

\* key evictLRU removes, or 0 when its loop finds none (oldestKey stays null)
OldestKey(times, t) == OldestFrom(times, 1, 0, t)

\* the least access time stored
OldestTime(times) ==
  CHOOSE t \in {times[i][2] : i \in 1..Len(times)} : \A i \in 1..Len(times) : t <= times[i][2]

\* ret: the call (op, key), its result, and what it met and did: whether key was
\* stored, whether its item's age exceeded its ttl, whether the store was at
\* capacity, the keys the call removed, whether every removed key had the least
\* access time stored, and the change of the store's size
Ret(op, k, result) ==
  LET removed == (DOMAIN qsCache) \ (DOMAIN qsCache') IN
  [op |-> op, key |-> k, result |-> result,
   hadKey |-> k \in DOMAIN qsCache,
   expired |-> k \in DOMAIN qsCache /\ now - qsCache[k].timestamp > qsCache[k].ttl,
   wasFull |-> Cardinality(DOMAIN qsCache) >= maxSize,
   removed |-> removed,
   removedOldest |-> \A e \in removed : AccessTimeOf(e) = OldestTime(accessTimes),
   delta |-> Cardinality(DOMAIN qsCache') - Cardinality(DOMAIN qsCache)]

Cache_get(k) ==
  /\ IF k \in DOMAIN qsCache
     THEN LET item == qsCache[k] IN
          IF IsExpired(item, now)
          THEN /\ missCount < MaxCount
               /\ qsCache' = MapDelete(qsCache, k)
               /\ accessTimes' = SeqRemoveKey(accessTimes, k)
               /\ missCount' = missCount + 1
               /\ hitCount' = hitCount
               /\ ret' = Ret("get", k, Null)
          ELSE /\ hitCount < MaxCount
               /\ item.accessCount < MaxCount
               /\ qsCache' = MapSet(qsCache, k, [item EXCEPT !.accessCount = @ + 1])
               /\ accessTimes' = SeqSetKey(accessTimes, k, now)
               /\ hitCount' = hitCount + 1
               /\ missCount' = missCount
               /\ ret' = Ret("get", k, item.value)
     ELSE /\ missCount < MaxCount
          /\ missCount' = missCount + 1
          /\ UNCHANGED <<qsCache, accessTimes, hitCount>>
          /\ ret' = Ret("get", k, Null)
  /\ UNCHANGED <<now, notCache>>

\* set on a store [cache, times] at time t: the store it leaves
SetStore(store, k, v, ttl, t) ==
  LET full == Cardinality(DOMAIN store.cache) >= maxSize /\ k \notin DOMAIN store.cache
      victim == IF full THEN OldestKey(store.times, t) ELSE 0
      cache1 == IF victim # 0 THEN MapDelete(store.cache, victim) ELSE store.cache
      times1 == IF victim # 0 THEN SeqRemoveKey(store.times, victim) ELSE store.times
  IN [cache |-> MapSet(cache1, k, [value |-> v, timestamp |-> t, ttl |-> ttl,
                                   accessCount |-> 0]),
      times |-> SeqSetKey(times1, k, t)]

Cache_set(k, v, ttl) ==
  LET store == SetStore([cache |-> qsCache, times |-> accessTimes], k, v, ttl, now)
  IN /\ qsCache' = store.cache
     /\ accessTimes' = store.times
     /\ ret' = Ret("set", k, Null)
     /\ UNCHANGED <<hitCount, missCount, now, notCache>>

\* has written with the bookkeeping of get: a hit renews the key's access time
Cache_has_Touching(k) ==
  /\ IF k \notin DOMAIN qsCache
     THEN /\ UNCHANGED <<qsCache, accessTimes>>
          /\ ret' = Ret("has", k, "false")
     ELSE IF IsExpired(qsCache[k], now)
          THEN /\ qsCache' = MapDelete(qsCache, k)
               /\ accessTimes' = SeqRemoveKey(accessTimes, k)
               /\ ret' = Ret("has", k, "false")
          ELSE /\ accessTimes' = SeqSetKey(accessTimes, k, now)
               /\ UNCHANGED qsCache
               /\ ret' = Ret("has", k, "true")
  /\ UNCHANGED <<hitCount, missCount, now, notCache>>

Cache_has(k) ==
  /\ IF k \notin DOMAIN qsCache
     THEN /\ UNCHANGED <<qsCache, accessTimes>>
          /\ ret' = Ret("has", k, "false")
     ELSE IF IsExpired(qsCache[k], now)
          THEN /\ qsCache' = MapDelete(qsCache, k)
               /\ accessTimes' = SeqRemoveKey(accessTimes, k)
               /\ ret' = Ret("has", k, "false")
          ELSE /\ UNCHANGED <<qsCache, accessTimes>>
               /\ ret' = Ret("has", k, "true")
  /\ UNCHANGED <<hitCount, missCount, now, notCache>>

Cache_delete(k) ==
  /\ qsCache' = MapDelete(qsCache, k)
  /\ accessTimes' = SeqRemoveKey(accessTimes, k)
  /\ ret' = Ret("delete", k, Null)
  /\ UNCHANGED <<hitCount, missCount, now, notCache>>

Cache_clear ==
  /\ qsCache' = EmptyMap
  /\ accessTimes' = <<>>
  /\ ret' = Ret("clear", 0, Null)
  /\ UNCHANGED <<hitCount, missCount, now, notCache>>

\* what get(k) returns on cache at time t, and what has(k) tells of: the value of
\* an entry that is stored and not expired, null otherwise
Lookup(cache, k, t) ==
  IF k \in DOMAIN cache /\ ~IsExpired(cache[k], t) THEN cache[k].value ELSE Null

\* cleanup that takes an entry whose age has reached its ttl for expired
Cache_cleanup_AtTtl ==
  LET keysToDelete == {k \in DOMAIN qsCache : now - qsCache[k].timestamp >= qsCache[k].ttl}
  IN /\ qsCache' = [k \in (DOMAIN qsCache) \ keysToDelete |-> qsCache[k]]
     /\ accessTimes' = SelectSeq(accessTimes, LAMBDA e : e[1] \notin keysToDelete)
     /\ ret' = Ret("cleanup", 0, Cardinality(keysToDelete))
     /\ UNCHANGED <<hitCount, missCount, now, notCache>>

\* cleanup, also run by the periodic timer
Cache_cleanup ==
  LET keysToDelete == {k \in DOMAIN qsCache : IsExpired(qsCache[k], now)}
  IN /\ qsCache' = [k \in (DOMAIN qsCache) \ keysToDelete |-> qsCache[k]]
     /\ accessTimes' = SelectSeq(accessTimes, LAMBDA e : e[1] \notin keysToDelete)
     /\ ret' = Ret("cleanup", 0, Cardinality(keysToDelete))
     /\ UNCHANGED <<hitCount, missCount, now, notCache>>

\* ret when the last step was no call of the cache
NoRet == [op |-> "none", key |-> 0, result |-> Null, hadKey |-> FALSE,
          expired |-> FALSE, wasFull |-> FALSE, removed |-> {}, removedOldest |-> TRUE,
          delta |-> 0]

\* the clock advances
Tick ==
  /\ now < MaxTime
  /\ now' = now + 1
  /\ ret' = NoRet
  /\ UNCHANGED <<qsCache, accessTimes, hitCount, missCount, notCache>>

InitCache ==
  /\ qsCache = EmptyMap
  /\ accessTimes = <<>>
  /\ hitCount = 0
  /\ missCount = 0
  /\ now = 0
  /\ ret = NoRet

\* the ttls of entries that live short and long beside each other
MixedTTLs == {0, 2}

\* the cache filled with entries of both ttls, asked for keys and swept by the
\* periodic timer
NextCacheSweep ==
  \/ \E k \in CacheKeys, v \in Values, ttl \in MixedTTLs : Cache_set(k, v, ttl)
  \/ \E k \in CacheKeys : Cache_has(k)
  \/ Cache_cleanup
  \/ Tick

NextCache ==
  \/ \E k \in CacheKeys : Cache_get(k)
  \/ \E k \in CacheKeys, v \in Values, ttl \in TTLs : Cache_set(k, v, ttl)
  \/ \E k \in CacheKeys : Cache_has(k)
  \/ \E k \in CacheKeys : Cache_delete(k)
  \/ Cache_clear
  \/ Cache_cleanup
  \/ Tick

\* -------------------------------------------------------- VideoPreloader
maxConcurrentRequests == 3
cacheLimit == 100
\* ttl of the entries processVideoRequest stores: 24 hours
PreloaderTTL == 24 * 60 * 60 * 1000

\* window.innerHeight
innerHeight == 2000

\* A page: its video elements in document order. Each has the videoId of its
\* link, and the top and height of its box in page coordinates. The last element
\* of either page shows a video that the first one shows too, and lies just below
\* the viewport until the page is scrolled.
SmallPage == << [videoId |-> "a", top |-> -90, height |-> 200],
                [videoId |-> "d", top |-> -99, height |-> 200],
                [videoId |-> "a", top |-> 2000, height |-> 200] >>
\* the five videos of Scenario A, whose priorities are 10, 5, 8, 1, 9 before any scroll
ScenarioPage == << [videoId |-> "a", top |-> -90, height |-> 200],
                   [videoId |-> "b", top |-> -95, height |-> 200],
                   [videoId |-> "c", top |-> -92, height |-> 200],
                   [videoId |-> "d", top |-> -99, height |-> 200],
                   [videoId |-> "e", top |-> -91, height |-> 200],
                   [videoId |-> "a", top |-> 2000, height |-> 200] >>
Dom == IF page = "scenarioA" THEN ScenarioPage ELSE SmallPage
Elements == 1..Len(Dom)
VideoIds == {Dom[e].videoId : e \in Elements}

Abs(x) == IF x < 0 THEN -x ELSE x
Max(x, y) == IF x > y THEN x ELSE y

\* element.getBoundingClientRect(), vertical part
RectTop(e) == Dom[e].top - scrollY
RectBottom(e) == Dom[e].top + Dom[e].height - scrollY

isElementVisible(e) == RectTop(e) < innerHeight /\ RectBottom(e) > 0

\* the distance calculatePriority measures: element centre to viewport centre
DistanceFromCenter(e) ==
  Abs(innerHeight \div 2 - (RectTop(e) + Dom[e].height \div 2))

\* calculatePriority without its lower limit
calculatePriority_Unclamped(e) ==
  LET viewportCenter == innerHeight \div 2
      elementCenter == RectTop(e) + Dom[e].height \div 2
  IN 1000 - Abs(viewportCenter - elementCenter)

\* PerformanceOptimizer.calculatePriority, in tenths of a point: the distance
\* term, the view-count term for views given in units of 100000, and the
\* recency term as parseRecency returns it
Optimizer_calculatePriority(e, views, recency) ==
  Max(0, 1000 - DistanceFromCenter(e))
    + (IF views < 500 THEN views ELSE 500)
    + 10 * recency

\* the view counts and the values of parseRecency tried
ViewSignals == {7, 12000}
RecencySignals == {0, 30}

\* VideoPreloader.calculatePriority
calculatePriority(e) ==
  LET viewportCenter == innerHeight \div 2
      elementCenter == RectTop(e) + Dom[e].height \div 2
      distanceFromCenter == Abs(viewportCenter - elementCenter)
  IN Max(0, 1000 - distanceFromCenter)

\* Array.prototype.sort with (a, b) => b.priority - a.priority: descending and
\* stable, written as the insertion of each element behind the ones not below it
RECURSIVE InsertByPriority_BeforeEquals(_, _)
\* the insertion that puts an element ahead of the ones of its own priority
InsertByPriority_BeforeEquals(sorted, x) ==
  IF sorted = <<>> THEN <<x>>
  ELSE IF Head(sorted).priority > x.priority
       THEN <<Head(sorted)>> \o InsertByPriority_BeforeEquals(Tail(sorted), x)
       ELSE <<x>> \o sorted

RECURSIVE InsertByPriority(_, _)
InsertByPriority(sorted, x) ==
  IF sorted = <<>> THEN <<x>>
  ELSE IF Head(sorted).priority >= x.priority
       THEN <<Head(sorted)>> \o InsertByPriority(Tail(sorted), x)
       ELSE <<x>> \o sorted

RECURSIVE SortByPriority(_)
SortByPriority(s) ==
  IF s = <<>> THEN <<>>
  ELSE InsertByPriority(SortByPriority(SubSeq(s, 1, Len(s) - 1)), s[Len(s)])

\* queueRequest: push, then sort
queueRequest(queue, e) ==
  SortByPriority(Append(queue, [videoId |-> Dom[e].videoId,
                                priority |-> calculatePriority(e)]))

RECURSIVE QueueAll(_, _)
\* the forEach of preloadVideos over the uncached videos
QueueAll(queue, es) ==
  IF es = <<>> THEN queue
  ELSE QueueAll(queueRequest(queue, Head(es)), Tail(es))

\* the requests of the uncached videos, in the order queueRequest receives them
Arrivals(es) ==
  [i \in 1..Len(es) |-> [videoId |-> Dom[es[i]].videoId,
                         priority |-> calculatePriority(es[i])]]

RECURSIVE RemoveFirst(_, _)
\* s without the first occurrence of x
RemoveFirst(s, x) ==
  IF s = <<>> THEN <<>>
  ELSE IF Head(s) = x THEN Tail(s) ELSE <<Head(s)>> \o RemoveFirst(Tail(s), x)

RECURSIVE RemoveAll(_, _)
\* s without the first occurrence of each entry of xs
RemoveAll(s, xs) ==
  IF xs = <<>> THEN s ELSE RemoveAll(RemoveFirst(s, Head(xs)), Tail(xs))

\* lastTurn: the videoId whose request the step settled and how ("none", "ok",
\* "failed"), activeRequests when the step began, and, of its call of
\* processRequestQueue, the queue in order of arrival that the call met, the
\* requests it dispatched in order, and the queue it left
Turn(settled, outcome, before, dispatched, left) ==
  [settled |-> settled, outcome |-> outcome, activeWas |-> activeRequests,
   before |-> before, dispatched |-> dispatched, left |-> left]

\* lastTurn after a step that settled nothing and dispatched nothing
NoTurn == Turn(Null, "none", <<>>, <<>>, <<>>)

\* the data of an answer: a summary object as processVideoSummary returns it, or,
\* with wrapped, a background cache entry {data, timestamp, ttl} around one
Payload(s) == [summary |-> s, wrapped |-> FALSE, timestamp |-> 0]

\* an answer without data
NoData == Payload(Null)

\* a request that has stored nothing yet
NoEntry == [summary |-> NoData, timestamp |-> 0, ttl |-> 0]

RECURSIVE processRequestQueue_NoCeiling(_)
\* the loop without its test of activeRequests
processRequestQueue_NoCeiling(st) ==
  IF Len(st.queue) > 0
  THEN LET request == Head(st.queue) IN
       processRequestQueue_NoCeiling(
         [queue |-> Tail(st.queue),
          active |-> st.active + 1,
          executing |-> st.executing (+)
                          SetToBag({[videoId |-> request.videoId,
                                     stage |-> "sent", entry |-> NoEntry]}),
          dispatched |-> Append(st.dispatched, request)])
  ELSE st

RECURSIVE processRequestQueue(_)
\* the while loop of processRequestQueue on st = [queue, active, executing, dispatched]
processRequestQueue(st) ==
  IF Len(st.queue) > 0 /\ st.active < maxConcurrentRequests
  THEN LET request == Head(st.queue) IN
       processRequestQueue(
         [queue |-> Tail(st.queue),
          active |-> st.active + 1,
          executing |-> st.executing (+)
                          SetToBag({[videoId |-> request.videoId,
                                     stage |-> "sent", entry |-> NoEntry]}),
          dispatched |-> Append(st.dispatched, request)])
  ELSE st

\* the state the scheduler is left in by a call of processRequestQueue, where
\* arrived is the queue in order of arrival
Drain(queue, arrived, active, ex, settled, outcome) ==
  LET st == processRequestQueue([queue |-> queue, active |-> active,
                                 executing |-> ex, dispatched |-> <<>>])
  IN /\ requestQueue' = st.queue
     /\ activeRequests' = st.active
     /\ executing' = st.executing
     /\ arrival' = RemoveAll(arrived, st.dispatched)
     /\ lastTurn' = Turn(settled, outcome, arrived, st.dispatched, st.queue)

\* preloadVideos(videos): videos is a sequence of elements
preloadVideos(videos) ==
  LET uncachedVideos ==
        SelectSeq(videos, LAMBDA e : /\ Dom[e].videoId \notin DOMAIN plCache
                                     /\ Dom[e].videoId \notin processingQueue)
  IN IF Len(uncachedVideos) = 0
     THEN /\ lastTurn' = NoTurn
          /\ UNCHANGED <<plCache, processingQueue, requestQueue, activeRequests,
                         executing, storage, arrival>>
     ELSE /\ processingQueue' = processingQueue \cup
               {Dom[uncachedVideos[i]].videoId : i \in 1..Len(uncachedVideos)}
          /\ Drain(QueueAll(requestQueue, uncachedVideos),
                   arrival \o Arrivals(uncachedVideos), activeRequests, executing,
                   Null, "none")
          /\ Len(requestQueue') <= MaxQueue
          /\ UNCHANGED <<plCache, storage>>

\* the elements of a set of elements, in document order
InDocumentOrder(S) == SelectSeq([e \in Elements |-> e], LAMBDA e : e \in S)

\* the first n entries of a sequence: slice(0, n)
Slice(s, n) == SubSeq(s, 1, IF Len(s) < n THEN Len(s) ELSE n)

\* scanAndPreloadVisibleVideos, run by the initial timer and the scroll handler
scanAndPreloadVisibleVideos ==
  LET visibleVideos == Slice(InDocumentOrder({e \in Elements : isElementVisible(e)}), 12)
  IN /\ observing' = TRUE
     /\ IF Len(visibleVideos) > 0
        THEN preloadVideos(visibleVideos)
        ELSE /\ lastTurn' = NoTurn
             /\ UNCHANGED <<plCache, processingQueue, requestQueue, activeRequests,
                            executing, storage, arrival>>
     /\ UNCHANGED <<page, scrollY, now, notPreloader>>

\* the intersectionObserver callback for the entries S that are intersecting
IntersectionCallback(S) ==
  /\ observing
  /\ preloadVideos(InDocumentOrder(S))
  /\ UNCHANGED <<page, scrollY, observing, now, notPreloader>>

\* the user scrolls the page
Scroll(y) ==
  /\ y # scrollY
  /\ scrollY' = y
  /\ lastTurn' = NoTurn
  /\ UNCHANGED <<page, plCache, processingQueue, requestQueue, activeRequests,
                 observing, executing, storage, arrival, now, notPreloader>>

\* a then callback in place of the finally callback: it does not run on failure
Settle_OnSuccessOnly(r, ex, outcome) ==
  IF outcome = "failed"
  THEN /\ executing' = ex
       /\ lastTurn' = Turn(r.videoId, outcome, <<>>, <<>>, <<>>)
       /\ UNCHANGED <<processingQueue, requestQueue, activeRequests, arrival>>
  ELSE /\ processingQueue' = processingQueue \ {r.videoId}
       /\ IF Len(requestQueue) > 0
          THEN Drain(requestQueue, arrival, activeRequests - 1, ex, r.videoId, outcome)
          ELSE /\ activeRequests' = activeRequests - 1
               /\ executing' = ex
               /\ lastTurn' = Turn(r.videoId, outcome, <<>>, <<>>, <<>>)
               /\ UNCHANGED <<requestQueue, arrival>>

\* a finally callback that gives the slot back and does not call
\* processRequestQueue again
Settle_NoContinue(r, ex, outcome) ==
  /\ processingQueue' = processingQueue \ {r.videoId}
  /\ activeRequests' = activeRequests - 1
  /\ executing' = ex
  /\ lastTurn' = Turn(r.videoId, outcome, <<>>, <<>>, <<>>)
  /\ UNCHANGED <<requestQueue, arrival>>

\* the finally callback of processRequestQueue for request r
Settle(r, ex, outcome) ==
  /\ processingQueue' = processingQueue \ {r.videoId}
  /\ IF Len(requestQueue) > 0
     THEN Drain(requestQueue, arrival, activeRequests - 1, ex, r.videoId, outcome)
     ELSE /\ activeRequests' = activeRequests - 1
          /\ executing' = ex
          /\ lastTurn' = Turn(r.videoId, outcome, <<>>, <<>>, <<>>)
          /\ UNCHANGED <<requestQueue, arrival>>

\* processVideoRequest, from the answer to sendMessage up to its next await.
\* response: what the await yields, a rejection or the answer {success, data}
processVideoRequest(r, response) ==
  /\ BagIn(r, executing) /\ r.stage = "sent"
  /\ IF ~response.rejected /\ response.success
     THEN LET entry == [summary |-> response.data, timestamp |-> now,
                        ttl |-> PreloaderTTL]
          IN /\ plCache' = MapSet(plCache, r.videoId, entry)
             /\ executing' = (executing (-) SetToBag({r})) (+)
                               SetToBag({[r EXCEPT !.stage = "storing",
                                                   !.entry = entry]})
             /\ lastTurn' = NoTurn
             /\ UNCHANGED <<processingQueue, requestQueue, activeRequests, arrival>>
     ELSE /\ Settle(r, executing (-) SetToBag({r}), "failed")
          /\ UNCHANGED plCache
  /\ UNCHANGED <<page, scrollY, observing, storage, now>>

\* sendMessage comes back with response, whoever answered it
MessageAnswered(r, response) ==
  /\ processVideoRequest(r, response)
  /\ UNCHANGED notPreloader

\* the timestamps of the cache's entries, oldest first
RECURSIVE OldestKeys(_, _)
OldestKeys(cache, n) ==
  IF n <= 0 \/ DOMAIN cache = {} THEN {}
  ELSE LET k == CHOOSE x \in DOMAIN cache :
                  \A y \in DOMAIN cache : cache[x].timestamp <= cache[y].timestamp
       IN {k} \cup OldestKeys(MapDelete(cache, k), n - 1)

\* manageCacheSize: the keys it removes from the cache and from storage
manageCacheSize(cache) ==
  IF Cardinality(DOMAIN cache) > cacheLimit
  THEN OldestKeys(cache, Cardinality(DOMAIN cache) - cacheLimit)
  ELSE {}

\* processVideoRequest, from the end of chrome.storage.local.set to its return
StorageSetDone(r, ok) ==
  /\ BagIn(r, executing) /\ r.stage = "storing"
  /\ IF ok
     THEN LET toRemove == manageCacheSize(plCache)
              stored == MapSet(storage, r.videoId, r.entry)
          IN /\ plCache' = [k \in (DOMAIN plCache) \ toRemove |-> plCache[k]]
             /\ storage' = [k \in (DOMAIN stored) \ toRemove |-> stored[k]]
     ELSE UNCHANGED <<plCache, storage>>
  /\ Settle(r, executing (-) SetToBag({r}), "ok")
  /\ UNCHANGED <<page, scrollY, observing, now, notPreloader>>

destroy ==
  /\ observing' = FALSE
  /\ plCache' = EmptyMap
  /\ processingQueue' = {}
  /\ requestQueue' = <<>>
  /\ arrival' = <<>>
  /\ lastTurn' = NoTurn
  /\ UNCHANGED <<page, scrollY, activeRequests, executing, storage, now,
                 notPreloader>>

\* got: the videoId asked for, the summary returned (NoData for null), the tier
\* that held it ("none" for null), whether the storage read failed, and the time
Lookup_Returned(videoId, result, tier, failed) ==
  [videoId |-> videoId, result |-> result, tier |-> tier, failed |-> failed,
   at |-> now]

\* got before any call has returned
NoLookup == [videoId |-> Null, result |-> NoData, tier |-> "none", failed |-> FALSE,
             at |-> 0]

\* the test getCachedSummary puts to an entry of either tier
IsFresh(entry, t) == t - entry.timestamp < entry.ttl

\* getCachedSummary(videoId) up to its return from the memory cache or its await
\* of chrome.storage.local.get
getCachedSummary(videoId) ==
  /\ IF videoId \in DOMAIN plCache /\ IsFresh(plCache[videoId], now)
     THEN /\ got' = Lookup_Returned(videoId, plCache[videoId].summary, "memory", FALSE)
          /\ UNCHANGED reading
     ELSE /\ videoId \notin reading
          /\ reading' = reading \cup {videoId}
          /\ UNCHANGED got
  /\ UNCHANGED <<cacheVars, preloaderVars, backgroundVars, uiVars, injectorVars,
                 tooltipVars, popupVars>>

\* getCachedSummary that leaves the memory cache as it finds it
StorageGetDone_NoPromotion(videoId, ok) ==
  /\ videoId \in reading
  /\ reading' = reading \ {videoId}
  /\ IF ok /\ videoId \in DOMAIN storage /\ IsFresh(storage[videoId], now)
     THEN got' = Lookup_Returned(videoId, storage[videoId].summary, "storage", FALSE)
     ELSE got' = Lookup_Returned(videoId, NoData, "none", ~ok)
  /\ UNCHANGED <<cacheVars, page, scrollY, plCache, processingQueue, requestQueue,
                 activeRequests, observing, executing, storage, arrival, lastTurn,
                 backgroundVars, uiVars, injectorVars, tooltipVars, popupVars>>

\* getCachedSummary from the end of chrome.storage.local.get to its return; the
\* read comes back with the stored entries (ok) or fails
StorageGetDone(videoId, ok) ==
  /\ videoId \in reading
  /\ reading' = reading \ {videoId}
  /\ IF ok /\ videoId \in DOMAIN storage /\ IsFresh(storage[videoId], now)
     THEN /\ plCache' = MapSet(plCache, videoId, storage[videoId])
          /\ got' = Lookup_Returned(videoId, storage[videoId].summary, "storage", FALSE)
     ELSE /\ UNCHANGED plCache
          /\ got' = Lookup_Returned(videoId, NoData, "none", ~ok)
  /\ UNCHANGED <<cacheVars, page, scrollY, processingQueue, requestQueue,
                 activeRequests, observing, executing, storage, arrival, lastTurn,
                 backgroundVars, uiVars, injectorVars, tooltipVars, popupVars>>

InitPreloader ==
  /\ page = "small"
  /\ scrollY = 0
  /\ plCache = EmptyMap
  /\ processingQueue = {}
  /\ requestQueue = <<>>
  /\ activeRequests = 0
  /\ observing = FALSE
  /\ executing = EmptyBag
  /\ storage = EmptyMap
  /\ arrival = <<>>
  /\ lastTurn = NoTurn
  /\ reading = {}
  /\ got = NoLookup

\* the videos of earlier pages whose summaries fill the memory cache beside a's
OtherIds == {"other" \o ToString(i) : i \in 1..(cacheLimit - 1)}

\* a preloader that has cached a's summary and then those of cacheLimit - 1 other
\* videos, each at its own time before time 0, so that its memory cache is full;
\* chrome.storage holds the same entries and, from an earlier load of the page,
\* one for d
InitPreloaderFull ==
  /\ page = "small"
  /\ scrollY = 0
  /\ plCache = [k \in {"a"} \cup OtherIds |->
                  [summary |-> Payload("summary"),
                   timestamp |-> IF k = "a" THEN -200
                                 ELSE (CHOOSE i \in 1..(cacheLimit - 1) :
                                         k = "other" \o ToString(i)) - 200,
                   ttl |-> PreloaderTTL]]
  /\ storage = [k \in {"a", "d"} \cup OtherIds |->
                  IF k = "d" THEN [summary |-> Payload("summary"), timestamp |-> -300,
                                   ttl |-> PreloaderTTL]
                  ELSE plCache[k]]
  /\ processingQueue = {}
  /\ requestQueue = <<>>
  /\ activeRequests = 0
  /\ observing = FALSE
  /\ executing = EmptyBag
  /\ arrival = <<>>
  /\ lastTurn = NoTurn
  /\ reading = {}
  /\ got = NoLookup

\* what sendMessage can come back with, whoever answers it
Responses == {[rejected |-> FALSE, success |-> TRUE, data |-> Payload("summary")],
              [rejected |-> FALSE, success |-> FALSE, data |-> NoData],
              [rejected |-> TRUE, success |-> FALSE, data |-> NoData]}

\* The provider answers every message here, with a summary or with an error.
Answers == {response \in Responses : ~response.rejected}

NextPreloader ==
  \/ scanAndPreloadVisibleVideos
  \/ \E S \in (SUBSET Elements) \ {{}} : IntersectionCallback(S)
  \/ \E y \in 0..MaxScroll : Scroll(y)
  \/ \E r \in BagToSet(executing) : \E response \in Responses :
       MessageAnswered(r, response)
  \/ \E r \in BagToSet(executing), ok \in BOOLEAN : StorageSetDone(r, ok)
  \/ destroy

\* the preloader on the Scenario A page, driven by scrolling and page scans, with
\* a chrome.storage that accepts every write
InitScenarioA ==
  /\ page = "scenarioA"
  /\ scrollY = 0
  /\ plCache = EmptyMap
  /\ processingQueue = {}
  /\ requestQueue = <<>>
  /\ activeRequests = 0
  /\ observing = FALSE
  /\ executing = EmptyBag
  /\ storage = EmptyMap
  /\ arrival = <<>>
  /\ lastTurn = NoTurn
  /\ reading = {}
  /\ got = NoLookup

\* the scroll positions that bring the page's last element to the viewport's
\* centre and past it
ViewportOffsets == {0, 600, 1100}

\* the Scenario A page scrolled far, scanned, and its fetches answered
NextViewport ==
  \/ scanAndPreloadVisibleVideos
  \/ \E y \in ViewportOffsets : Scroll(y)
  \/ \E r \in BagToSet(executing) : \E response \in Answers :
       MessageAnswered(r, response)
  \/ \E r \in BagToSet(executing) : StorageSetDone(r, TRUE)

NextScenarioA ==
  \/ scanAndPreloadVisibleVideos
  \/ \E y \in 0..MaxScroll : Scroll(y)
  \/ \E r \in BagToSet(executing) : \E response \in Responses :
       MessageAnswered(r, response)
  \/ \E r \in BagToSet(executing) : StorageSetDone(r, TRUE)

\* --------------------------------------------------- QuickSightBackground
\* the class the claims cite: the second one of service-worker.js
maxCacheSize == 100
BackgroundTTL == 3600000

pendingKey(videoId) == "summary_" \o videoId
cacheKey(videoId) == "bg_summary_" \o videoId

\* what processVideoSummary can resolve with: a summary, or, from its catch
\* block, the object generateErrorSummary builds
Summaries == {Payload("summary"), Payload("errorSummary")}

\* the keys of this.cache
BgKeys(cache) == {cache[i].key : i \in 1..Len(cache)}

\* this.cache.get(key), for a key the cache has
BgGet(cache, key) == cache[CHOOSE i \in 1..Len(cache) : cache[i].key = key]

\* a test of pendingRequests that never finds the key
IsPending_Never(key) == FALSE

\* this.pendingRequests.has(pendingKey)
IsPending(key) == key \in pendingRequests

\* the key addToCache deletes before it stores, "none" if it deletes none
Evicted(cache) == IF Len(cache) >= maxCacheSize THEN cache[1].key ELSE "none"

\* addToCache(key, value): Map.set leaves a key it already holds in its place
addToCache(cache, key, value) ==
  LET kept == IF Len(cache) >= maxCacheSize THEN Tail(cache) ELSE cache
      entry == [key |-> key, data |-> value, timestamp |-> now,
                ttl |-> BackgroundTTL]
  IN IF key \in BgKeys(kept)
     THEN [i \in 1..Len(kept) |-> IF kept[i].key = key THEN entry ELSE kept[i]]
     ELSE Append(kept, entry)

\* the object a cache hit sends as data: the entry itself, not the entry's data
CachedEntry(entry) ==
  [summary |-> entry.data.summary, wrapped |-> TRUE, timestamp |-> entry.timestamp]

\* the argument of sendResponse, with the videoId of the message it answers
Response(videoId, data, cached) ==
  [videoId |-> videoId, rejected |-> FALSE, success |-> TRUE, data |-> data,
   cached |-> cached]

\* n copies of x as a bag
BagOf(x, n) == IF n = 0 THEN EmptyBag ELSE [y \in {x} |-> n]

NoCycle == [asked |-> 0, invoked |-> 0, answered |-> 0, payloads |-> {}]
CycleOf(key) == IF key \in DOMAIN cycle THEN cycle[key] ELSE NoCycle

\* handleMessage for {action: 'getVideoSummary', videoId}, up to its first await
\* or its return
getVideoSummary(videoId) ==
  LET key == cacheKey(videoId)
      asked == IF key \in BgKeys(bgCache) THEN 0 ELSE 1
  IN /\ IF IsPending(pendingKey(videoId))
        THEN /\ handlers' = handlers (+) SetToBag({[videoId |-> videoId,
                                                     role |-> "joined"]})
             /\ cycle' = MapSet(cycle, key,
                           [CycleOf(key) EXCEPT !.asked = @ + asked])
             /\ UNCHANGED <<bgCache, pendingRequests, outbox>>
        ELSE IF key \in BgKeys(bgCache)
        THEN /\ outbox' = outbox (+) SetToBag({
                  Response(videoId, CachedEntry(BgGet(bgCache, key)), TRUE)})
             /\ UNCHANGED <<bgCache, pendingRequests, handlers, cycle>>
        ELSE /\ pendingRequests' = pendingRequests \cup {pendingKey(videoId)}
             /\ handlers' = handlers (+) SetToBag({[videoId |-> videoId,
                                                     role |-> "first"]})
             /\ cycle' = MapSet(cycle, key,
                           [CycleOf(key) EXCEPT !.asked = @ + 1, !.invoked = @ + 1])
             /\ UNCHANGED <<bgCache, outbox>>
     /\ UNCHANGED succeeded

\* a getVideoSummary message from any content script
MessageReceived(videoId) ==
  /\ BagCardinality(handlers) + BagCardinality(outbox) < MaxCallers
  /\ getVideoSummary(videoId)
  /\ UNCHANGED notBackground

\* the promise of processVideoSummary(videoId) resolves with summary: the handler
\* that made the call resumes first, then the handlers that joined it
processVideoSummary(videoId, summary) ==
  LET first == [videoId |-> videoId, role |-> "first"]
      joined == [videoId |-> videoId, role |-> "joined"]
      n == CopiesIn(joined, handlers)
      key == cacheKey(videoId)
      evicted == Evicted(bgCache)
      restarted == IF evicted \in DOMAIN cycle /\ evicted # key
                   THEN MapDelete(cycle, evicted) ELSE cycle
      was == IF key \in DOMAIN restarted THEN restarted[key] ELSE NoCycle
  IN /\ BagIn(first, handlers)
     /\ pendingRequests' = pendingRequests \ {pendingKey(videoId)}
     /\ bgCache' = addToCache(bgCache, key, summary)
     /\ handlers' = (handlers (-) SetToBag({first})) (-) BagOf(joined, n)
     /\ outbox' = (outbox (+) SetToBag({Response(videoId, summary, FALSE)}))
                    (+) BagOf(Response(videoId, summary, TRUE), n)
     /\ cycle' = MapSet(restarted, key,
                   [was EXCEPT !.answered = @ + 1 + n,
                               !.payloads = @ \cup {summary}])
     /\ succeeded' = IF summary.summary = "summary"
                     THEN succeeded \cup {videoId} ELSE succeeded
     /\ UNCHANGED notBackground

\* the sender of a message receives the answer
ResponseDelivered(response) ==
  /\ BagIn(response, outbox)
  /\ outbox' = outbox (-) SetToBag({response})
  /\ UNCHANGED <<bgCache, pendingRequests, handlers, cycle, succeeded>>
  /\ UNCHANGED notBackground

\* the worker before its first message
InitBackground ==
  /\ bgCache = <<>>
  /\ pendingRequests = {}
  /\ handlers = EmptyBag
  /\ outbox = EmptyBag
  /\ cycle = EmptyMap
  /\ succeeded = {}

\* summaries of n videos the model does not follow, in the order they were stored
OtherEntries(n) ==
  [i \in 1..n |-> [key |-> cacheKey("other" \o ToString(i)),
                   data |-> Payload("summary"), timestamp |-> 0,
                   ttl |-> BackgroundTTL]]

\* the worker after it has answered one message for video a and then one for each
\* of maxCacheSize - 1 other videos: its cache is full, a's entry the first
InitBackgroundFull ==
  /\ bgCache = <<[key |-> cacheKey("a"), data |-> Payload("summary"),
                  timestamp |-> 0, ttl |-> BackgroundTTL]>>
                 \o OtherEntries(maxCacheSize - 1)
  /\ pendingRequests = {}
  /\ handlers = EmptyBag
  /\ outbox = EmptyBag
  /\ cycle = MapSet(EmptyMap, cacheKey("a"),
               [asked |-> 1, invoked |-> 1, answered |-> 1,
                payloads |-> {Payload("summary")}])
  /\ succeeded = {"a"}

NextBackground ==
  \/ \E videoId \in VideoIds : MessageReceived(videoId)
  \/ \E videoId \in VideoIds : \E summary \in Summaries :
       processVideoSummary(videoId, summary)
  \/ \E response \in BagToSet(outbox) : ResponseDelivered(response)

\* the instants followed for entries that live ttl milliseconds: the first ones,
\* and the ones at which an entry stored at time 0 reaches and passes its ttl
Instants(ttl) == (0..MaxTime) \cup (ttl..(ttl + MaxTime))

\* time passes, up to the instant t
Elapse(t) ==
  /\ now < t
  /\ now' = t
  /\ UNCHANGED <<qsCache, accessTimes, hitCount, missCount, ret, notCache>>

\* the worker kept alive for more than the ttl of its entries
NextBackgroundAging ==
  \/ \E videoId \in VideoIds : MessageReceived(videoId)
  \/ \E videoId \in VideoIds : \E summary \in Summaries :
       processVideoSummary(videoId, summary)
  \/ \E response \in BagToSet(outbox) : ResponseDelivered(response)
  \/ \E t \in Instants(BackgroundTTL) : Elapse(t)

\* ------------------------------------- VideoPreloader's two tiers over time
\* the instants followed here: time 0, and the one at which an entry stored at
\* time 0 has lived its ttl
TierInstants == {0, PreloaderTTL}

\* the preloader prefetching and asked for summaries by getCachedSummary, while
\* time passes up to the ttl of its entries
NextTiers ==
  \/ scanAndPreloadVisibleVideos
  \/ \E r \in BagToSet(executing) : \E response \in Answers :
       MessageAnswered(r, response)
  \/ \E r \in BagToSet(executing), ok \in BOOLEAN : StorageSetDone(r, ok)
  \/ \E videoId \in VideoIds : getCachedSummary(videoId)
  \/ \E videoId \in VideoIds, ok \in BOOLEAN : StorageGetDone(videoId, ok)
  \/ \E t \in TierInstants : Elapse(t)

\* the requests for videoId whose message the worker has not handled yet
Unhandled(videoId) ==
  LET sent == [videoId |-> videoId, stage |-> "sent", entry |-> NoEntry]
      answers == {x \in BagToSet(outbox) : x.videoId = videoId}
      RECURSIVE Count(_)
      Count(S) == IF S = {} THEN 0
                  ELSE LET x == CHOOSE y \in S : TRUE
                       IN CopiesIn(x, outbox) + Count(S \ {x})
  IN CopiesIn(sent, executing)
       - CopiesIn([videoId |-> videoId, role |-> "first"], handlers)
       - CopiesIn([videoId |-> videoId, role |-> "joined"], handlers)
       - Count(answers)

\* the worker receives the message a request of the preloader sent
PreloaderMessageReceived(videoId) ==
  /\ Unhandled(videoId) > 0
  /\ getVideoSummary(videoId)
  /\ UNCHANGED notBackground

\* the preloader receives the worker's answer to request r
WorkerAnswered(r, response) ==
  /\ BagIn(response, outbox)
  /\ r.videoId = response.videoId
  /\ processVideoRequest(r, response)
  /\ outbox' = outbox (-) SetToBag({response})
  /\ UNCHANGED <<qsCache, accessTimes, hitCount, missCount, ret,
                 bgCache, pendingRequests, handlers, cycle, succeeded, uiVars,
                 lookupVars, injectorVars, tooltipVars, popupVars>>

NextSystem ==
  \/ scanAndPreloadVisibleVideos
  \/ \E y \in 0..MaxScroll : Scroll(y)
  \/ \E videoId \in VideoIds : PreloaderMessageReceived(videoId)
  \/ \E videoId \in VideoIds : \E summary \in Summaries :
       processVideoSummary(videoId, summary)
  \/ \E r \in BagToSet(executing) : \E response \in BagToSet(outbox) :
       WorkerAnswered(r, response)
  \/ \E r \in BagToSet(executing), ok \in BOOLEAN : StorageSetDone(r, ok)

\* ---------------------------------------------------- QuickSightUIManager
\* uiTurn: the step (op) and the video it was about; for a click or a status
\* update, the status the registry held for the video when the step began
\* ("unknown" when it held none) and the status asked for; for a status update,
\* how often it searched the document for the video's element, whether it found
\* one, how often it wrote the status, and the status it overwrote; for a click,
\* whether it sent a message and, if it did, how many requests of the preloader
\* were waiting in its request queue at that moment
UiTurn(op, videoId, statusWas, status) ==
  [op |-> op, videoId |-> videoId, statusWas |-> statusWas, status |-> status,
   rediscoveries |-> 0, found |-> FALSE, applied |-> 0, from |-> Null,
   sent |-> FALSE, queued |-> 0]

NoUiTurn == UiTurn("none", Null, Null, Null)

StatusOf(registry, videoId) ==
  IF videoId \in DOMAIN registry THEN registry[videoId].status ELSE "unknown"

\* registerVideo on st = [registry, processed, injected]
registerVideo(st, e, videoId) ==
  [st EXCEPT !.registry = MapSet(@, videoId,
     [element |-> e, status |-> "not_ready", quickSummary |-> NoData])]

\* injectUIElements: the element gets a container unless it holds one
injectUIElements(st, e) == [st EXCEPT !.injected = @ \cup {e}]

\* the loop body with registerVideo called for every element
ScanElement_AlwaysRegister(st, e) ==
  IF e \in st.processed THEN st
  ELSE [injectUIElements(registerVideo(st, e, Dom[e].videoId), e)
          EXCEPT !.processed = @ \cup {e}]

\* the body of the for loop of scanAndRegisterVideos
ScanElement(st, e) ==
  IF e \in st.processed THEN st
  ELSE LET videoId == Dom[e].videoId
           registered == IF videoId \notin DOMAIN st.registry
                         THEN registerVideo(st, e, videoId) ELSE st
       IN [injectUIElements(registered, e) EXCEPT !.processed = @ \cup {e}]

RECURSIVE scanAndRegisterVideos(_, _)
\* scanAndRegisterVideos over the elements es, in document order
scanAndRegisterVideos(st, es) ==
  IF es = <<>> THEN st
  ELSE scanAndRegisterVideos(ScanElement(st, Head(es)), Tail(es))

\* the callback of the MutationObserver for one added video element
ObserveElement(st, e) ==
  LET videoId == Dom[e].videoId IN
  IF e \notin st.processed /\ videoId \notin DOMAIN st.registry
  THEN [injectUIElements(registerVideo(st, e, videoId), e)
          EXCEPT !.processed = @ \cup {e}]
  ELSE st

RECURSIVE ObserveElements(_, _)
ObserveElements(st, es) ==
  IF es = <<>> THEN st
  ELSE ObserveElements(ObserveElement(st, Head(es)), Tail(es))

\* st as the manager and the document hold it
UiState == [registry |-> videoRegistry, processed |-> processedElements,
            injected |-> injected]

\* the manager and the document take st
SetUiState(st) ==
  /\ videoRegistry' = st.registry
  /\ processedElements' = st.processed
  /\ injected' = st.injected

\* document.querySelector('a[href*=videoId]')?.closest(...): the first element
\* of the document that links to the video, 0 when there is none
FindElement(videoId) ==
  LET es == {e \in attached : Dom[e].videoId = videoId}
  IN IF es = {} THEN 0 ELSE CHOOSE e \in es : \A x \in es : e <= x

\* updateVideoStatus that gives up after registering the element it found
updateVideoStatus_NoRetry(u, videoId, status, summaryData) ==
  IF videoId \in DOMAIN u.st.registry
  THEN [u EXCEPT !.st.registry[videoId].status = status,
                 !.st.registry[videoId].quickSummary =
                    IF summaryData # NoData THEN summaryData ELSE @,
                 !.applied = @ + 1,
                 !.from = u.st.registry[videoId].status]
  ELSE LET videoElement == FindElement(videoId) IN
       IF videoElement # 0
       THEN [u EXCEPT !.st = [injectUIElements(
                                 registerVideo(u.st, videoElement, videoId),
                                 videoElement)
                               EXCEPT !.processed = @ \cup {videoElement}],
                      !.rediscoveries = @ + 1, !.found = TRUE]
       ELSE [u EXCEPT !.rediscoveries = @ + 1]

RECURSIVE updateVideoStatus(_, _, _, _)
\* updateVideoStatus on u = [st, rediscoveries, found, applied, from]
updateVideoStatus(u, videoId, status, summaryData) ==
  IF videoId \in DOMAIN u.st.registry
  THEN [u EXCEPT !.st.registry[videoId].status = status,
                 !.st.registry[videoId].quickSummary =
                    IF summaryData # NoData THEN summaryData ELSE @,
                 !.applied = @ + 1,
                 !.from = u.st.registry[videoId].status]
  ELSE LET videoElement == FindElement(videoId) IN
       IF videoElement # 0
       THEN updateVideoStatus(
              [u EXCEPT !.st = [injectUIElements(
                                  registerVideo(u.st, videoElement, videoId),
                                  videoElement)
                                EXCEPT !.processed = @ \cup {videoElement}],
                        !.rediscoveries = @ + 1, !.found = TRUE],
              videoId, status, summaryData)
       ELSE [u EXCEPT !.rediscoveries = @ + 1]

\* a call of updateVideoStatus as a step: the state it leaves and its record
StatusUpdate(op, videoId, status, summaryData, sent) ==
  LET u == updateVideoStatus([st |-> UiState, rediscoveries |-> 0, found |-> FALSE,
                              applied |-> 0, from |-> Null],
                             videoId, status, summaryData)
  IN /\ SetUiState(u.st)
     /\ uiTurn' = [UiTurn(op, videoId, StatusOf(videoRegistry, videoId), status)
                     EXCEPT !.rediscoveries = u.rediscoveries, !.found = u.found,
                            !.applied = u.applied, !.from = u.from,
                            !.sent = sent,
                            !.queued = IF sent THEN Len(requestQueue) ELSE 0]

\* initialize: scanAndRegisterVideos, setupMutationObserver, setupEventDelegation
initialize ==
  /\ ~isInitialized
  /\ SetUiState(scanAndRegisterVideos(UiState, InDocumentOrder(attached)))
  /\ isInitialized' = TRUE
  /\ listening' = TRUE
  /\ uiTurn' = UiTurn("scan", Null, Null, Null)
  /\ UNCHANGED <<attached, onDemand, notUI>>

\* the content script's refreshContent message: scanAndRegisterVideos again
refreshContent ==
  /\ isInitialized
  /\ SetUiState(scanAndRegisterVideos(UiState, InDocumentOrder(attached)))
  /\ uiTurn' = UiTurn("scan", Null, Null, Null)
  /\ UNCHANGED <<attached, isInitialized, listening, onDemand, notUI>>

\* the page adds the video elements S; a connected MutationObserver is called
NodesAdded(S) ==
  /\ S \cap attached = {}
  /\ attached' = attached \cup S
  /\ IF isInitialized
     THEN /\ SetUiState(ObserveElements(UiState, InDocumentOrder(S)))
          /\ uiTurn' = UiTurn("mutation", Null, Null, Null)
     ELSE /\ UNCHANGED <<videoRegistry, processedElements, injected>>
          /\ uiTurn' = NoUiTurn
  /\ UNCHANGED <<isInitialized, listening, onDemand, notUI>>

\* the page removes the video elements S
NodesRemoved(S) ==
  /\ S \subseteq attached
  /\ attached' = attached \ S
  /\ uiTurn' = NoUiTurn
  /\ UNCHANGED <<videoRegistry, processedElements, injected, isInitialized,
                 listening, onDemand, notUI>>

\* the request handed to the preloader's queue, at the highest priority, in place
\* of the manager's own sendMessage
generateSummaryOnDemand_Queued(videoId) ==
  /\ StatusUpdate("click", videoId, "loading", NoData, TRUE)
  /\ LET request == [videoId |-> videoId, priority |-> 1000]
     IN Drain(SortByPriority(<<request>> \o requestQueue), <<request>> \o arrival,
              activeRequests, executing, Null, "none")
  /\ UNCHANGED <<attached, isInitialized, listening, onDemand, cacheVars,
                 backgroundVars, page, scrollY, plCache, processingQueue, observing,
                 storage, lookupVars, injectorVars, tooltipVars, popupVars>>

\* generateSummaryOnDemand up to the return of chrome.runtime.sendMessage
generateSummaryOnDemand(videoId) ==
  /\ BagCardinality(onDemand) < MaxOnDemand
  /\ StatusUpdate("click", videoId, "loading", NoData, TRUE)
  /\ onDemand' = onDemand (+) SetToBag({videoId})
  /\ UNCHANGED <<attached, isInitialized, listening, notUI>>

\* handleButtonClick for the button of element e
handleButtonClick(e) ==
  LET videoId == Dom[e].videoId IN
  /\ listening
  /\ e \in attached \cap injected
  /\ IF videoId \in DOMAIN videoRegistry /\ videoRegistry[videoId].status = "not_ready"
     THEN generateSummaryOnDemand(videoId)
     ELSE /\ uiTurn' = UiTurn("click", videoId, StatusOf(videoRegistry, videoId), Null)
          /\ UNCHANGED <<attached, injected, videoRegistry, processedElements,
                         isInitialized, listening, onDemand, notUI>>

\* the callback generateSummaryOnDemand gave to sendMessage
OnDemandAnswered(videoId, response) ==
  /\ BagIn(videoId, onDemand)
  /\ onDemand' = onDemand (-) SetToBag({videoId})
  /\ IF ~response.rejected /\ response.success
     THEN StatusUpdate("update", videoId, "ready", response.data, FALSE)
     ELSE StatusUpdate("update", videoId, "error", NoData, FALSE)
  /\ UNCHANGED <<attached, isInitialized, listening, notUI>>

\* QuickSightUIManager.destroy
UIManager_destroy ==
  /\ videoRegistry' = EmptyMap
  /\ processedElements' = {}
  /\ isInitialized' = FALSE
  /\ uiTurn' = UiTurn("destroy", Null, Null, Null)
  /\ UNCHANGED <<attached, injected, listening, onDemand, notUI>>

\* the manager constructed on a page whose video elements are in the document
InitUI ==
  /\ attached = Elements
  /\ injected = {}
  /\ videoRegistry = EmptyMap
  /\ processedElements = {}
  /\ isInitialized = FALSE
  /\ listening = FALSE
  /\ onDemand = EmptyBag
  /\ uiTurn = NoUiTurn

NextUI ==
  \/ initialize
  \/ refreshContent
  \/ \E S \in (SUBSET Elements) \ {{}} : NodesAdded(S)
  \/ \E S \in (SUBSET Elements) \ {{}} : NodesRemoved(S)
  \/ \E e \in Elements : handleButtonClick(e)
  \/ \E videoId \in VideoIds : \E response \in Responses :
       OnDemandAnswered(videoId, response)
  \/ UIManager_destroy

\* ------------------------------------------------------- YouTubeInjector
\* most initializeInternal calls one page sees
MaxSequences == 3

\* the content script has run: the injector is constructed and its first init()
\* has started initializeInternal, which stands at its first await
InitInjector ==
  /\ isEnabled = TRUE
  /\ injectorInitialized = FALSE
  /\ initializationPromise = 1
  /\ sequences = <<"waitForPageReady">>
  /\ quickSightUIManager = 0
  /\ quickSightPreloader = 0
  /\ liveUIManagers = {}
  /\ livePreloaders = {}

\* the initializeInternal calls that have not returned
InProgress ==
  {s \in 1..Len(sequences) : sequences[s] \in {"waitForPageReady", "settings"}}

\* YouTubeInjector.init(): returns the promise it holds, or starts
\* initializeInternal, which runs up to the first await of waitForPageReady
YouTubeInjector_init ==
  IF initializationPromise # 0
  THEN UNCHANGED <<initializationPromise, sequences>>
  ELSE /\ sequences' = Append(sequences, "waitForPageReady")
       /\ initializationPromise' = Len(sequences) + 1

\* waitForPageReady returns; initializeInternal awaits chrome.storage.sync.get
waitForPageReady_Done(s) ==
  /\ s \in 1..Len(sequences) /\ sequences[s] = "waitForPageReady"
  /\ sequences' = [sequences EXCEPT ![s] = "settings"]
  /\ UNCHANGED <<isEnabled, injectorInitialized, initializationPromise,
                 quickSightUIManager, quickSightPreloader, liveUIManagers,
                 livePreloaders, notInjector>>

\* the settings arrive: a disabled extension returns; otherwise
\* initializeInCorrectOrder assigns a new UI manager and a new preloader to the
\* window's globals (the manager's initialize() awaits nothing that yields to
\* another task) and isInitialized is set
SettingsRead(s, enabled) ==
  /\ s \in 1..Len(sequences) /\ sequences[s] = "settings"
  /\ isEnabled' = enabled
  /\ IF enabled
     THEN /\ quickSightUIManager' = s
          /\ liveUIManagers' = liveUIManagers \cup {s}
          /\ quickSightPreloader' = s
          /\ livePreloaders' = livePreloaders \cup {s}
          /\ injectorInitialized' = TRUE
          /\ sequences' = [sequences EXCEPT ![s] = "complete"]
     ELSE /\ sequences' = [sequences EXCEPT ![s] = "disabled"]
          /\ UNCHANGED <<quickSightUIManager, liveUIManagers, quickSightPreloader,
                         livePreloaders, injectorInitialized>>
  /\ UNCHANGED <<initializationPromise, notInjector>>

\* handleMessage, case 'toggleEnabled'
toggleEnabled(enabled) ==
  /\ Len(sequences) < MaxSequences
  /\ isEnabled' = enabled
  /\ IF enabled /\ ~injectorInitialized
     THEN YouTubeInjector_init
     ELSE UNCHANGED <<initializationPromise, sequences>>
  /\ UNCHANGED <<injectorInitialized, quickSightUIManager, quickSightPreloader,
                 liveUIManagers, livePreloaders, notInjector>>

\* what destroy() does to the modules the window's globals refer to
DestroyModules ==
  /\ liveUIManagers' = liveUIManagers \ {quickSightUIManager}
  /\ quickSightUIManager' = 0
  /\ livePreloaders' = livePreloaders \ {quickSightPreloader}
  /\ quickSightPreloader' = 0
  /\ injectorInitialized' = FALSE

\* YouTubeInjector.destroy(), as the beforeunload listener calls it
YouTubeInjector_destroy ==
  /\ DestroyModules
  /\ initializationPromise' = 0
  /\ UNCHANGED <<isEnabled, sequences, notInjector>>

\* the timer the urlObserver sets on a navigation: destroy(), then init()
urlObserver_Timer ==
  /\ isEnabled
  /\ Len(sequences) < MaxSequences
  /\ DestroyModules
  /\ sequences' = Append(sequences, "waitForPageReady")
  /\ initializationPromise' = Len(sequences) + 1
  /\ UNCHANGED <<isEnabled, notInjector>>

NextInjector ==
  \/ \E s \in 1..Len(sequences) : waitForPageReady_Done(s)
  \/ \E s \in 1..Len(sequences) : \E enabled \in BOOLEAN : SettingsRead(s, enabled)
  \/ \E enabled \in BOOLEAN : toggleEnabled(enabled)
  \/ YouTubeInjector_destroy
  \/ urlObserver_Timer

\* ------------------------------------------------------- QuickSightTooltip
\* most showInternal calls that await their summary at one time
MaxHovers == 2

\* the videos the pointer moves over
HoverIds == {"a", "b"}

\* the tooltip element: the pane that is displayed and the video it was filled for
Pane(kind, videoId) == [kind |-> kind, videoId |-> videoId]

\* the constructor and createTooltip: the element is not visible
InitTooltip ==
  /\ currentVideoId = Null
  /\ isVisible = FALSE
  /\ isHoveringVideo = FALSE
  /\ isHoveringTooltip = FALSE
  /\ debounceTimeout = Null
  /\ hideTimeout = FALSE
  /\ awaitingSummary = EmptyBag
  /\ pane = Pane("loading", Null)

\* show(element, videoId, position): replaces the debounce timer
show(videoId) ==
  /\ debounceTimeout' = videoId
  /\ UNCHANGED <<currentVideoId, isVisible, isHoveringVideo, isHoveringTooltip,
                 hideTimeout, awaitingSummary, pane, notTooltip>>

\* the debounce timer fires: showInternal up to its await of getSummary
showInternal ==
  /\ debounceTimeout # Null
  /\ BagCardinality(awaitingSummary) < MaxHovers
  /\ currentVideoId' = debounceTimeout
  /\ isHoveringVideo' = TRUE
  /\ hideTimeout' = FALSE
  /\ pane' = Pane("loading", debounceTimeout)
  /\ isVisible' = TRUE
  /\ awaitingSummary' = awaitingSummary (+) SetToBag({debounceTimeout})
  /\ debounceTimeout' = Null
  /\ UNCHANGED <<isHoveringTooltip, notTooltip>>

\* displaySummary(summary, position) for the summary of videoId
displaySummary(videoId) ==
  IF ~isVisible THEN pane
  ELSE Pane("summary", videoId)

\* displaySummary that drops a summary of a video the tooltip no longer targets
displaySummary_CurrentOnly(videoId) ==
  IF ~isVisible \/ videoId # currentVideoId THEN pane
  ELSE Pane("summary", videoId)

\* showError(message, position) for the failure of videoId
showError(videoId) ==
  IF ~isVisible THEN pane
  ELSE Pane("error", videoId)

\* getSummary(videoId) settles and showInternal resumes
SummaryArrived(videoId, ok) ==
  /\ BagIn(videoId, awaitingSummary)
  /\ awaitingSummary' = awaitingSummary (-) SetToBag({videoId})
  /\ pane' = IF ok THEN displaySummary(videoId) ELSE showError(videoId)
  /\ UNCHANGED <<currentVideoId, isVisible, isHoveringVideo, isHoveringTooltip,
                 debounceTimeout, hideTimeout, notTooltip>>

\* scheduleHide: sets the hide timer unless the pointer is over video or tooltip
scheduleHide(overVideo, overTooltip) ==
  IF ~overVideo /\ ~overTooltip THEN TRUE ELSE hideTimeout

\* hide(), as the mouseleave handler of a video calls it
Tooltip_hide ==
  /\ isHoveringVideo' = FALSE
  /\ hideTimeout' = scheduleHide(FALSE, isHoveringTooltip)
  /\ UNCHANGED <<currentVideoId, isVisible, isHoveringTooltip, debounceTimeout,
                 awaitingSummary, pane, notTooltip>>

\* the tooltip's own mouseenter handler
tooltipMouseEnter ==
  /\ isVisible /\ ~isHoveringTooltip
  /\ isHoveringTooltip' = TRUE
  /\ hideTimeout' = FALSE
  /\ UNCHANGED <<currentVideoId, isVisible, isHoveringVideo, debounceTimeout,
                 awaitingSummary, pane, notTooltip>>

\* the tooltip's own mouseleave handler
tooltipMouseLeave ==
  /\ isHoveringTooltip
  /\ isHoveringTooltip' = FALSE
  /\ hideTimeout' = scheduleHide(isHoveringVideo, FALSE)
  /\ UNCHANGED <<currentVideoId, isVisible, isHoveringVideo, debounceTimeout,
                 awaitingSummary, pane, notTooltip>>

\* the hide timer fires: hideInternal
hideInternal ==
  /\ hideTimeout
  /\ hideTimeout' = FALSE
  /\ IF ~isVisible
     THEN UNCHANGED <<currentVideoId, isVisible, isHoveringVideo, isHoveringTooltip,
                      debounceTimeout>>
     ELSE /\ debounceTimeout' = Null
          /\ isVisible' = FALSE
          /\ currentVideoId' = Null
          /\ isHoveringVideo' = FALSE
          /\ isHoveringTooltip' = FALSE
  /\ UNCHANGED <<awaitingSummary, pane, notTooltip>>

NextTooltip ==
  \/ \E videoId \in HoverIds : show(videoId)
  \/ showInternal
  \/ \E videoId \in HoverIds : \E ok \in BOOLEAN : SummaryArrived(videoId, ok)
  \/ Tooltip_hide
  \/ tooltipMouseEnter
  \/ tooltipMouseLeave
  \/ hideInternal

\* --------------------------------------------------------- QuickSightPopup
\* the popup is open and its clear button has not been clicked
InitPopup ==
  /\ clearing = "idle"
  /\ toast = Null
  /\ inbox = 0
  /\ replied = Null

\* the click on the clear button: clearCache up to its await of
\* chrome.storage.local.clear()
clearCache ==
  /\ clearing = "idle"
  /\ clearing' = "clear"
  /\ UNCHANGED <<storage, toast, inbox, replied, notPopup>>

\* chrome.storage.local.clear() settles: on success the stored entries are gone
\* and clearCache goes on to reload the popup's lists; a rejection is caught and
\* reported
StorageCleared(ok) ==
  /\ clearing = "clear"
  /\ IF ok
     THEN /\ storage' = EmptyMap
          /\ clearing' = "load"
          /\ UNCHANGED toast
     ELSE /\ clearing' = "idle"
          /\ toast' = "Failed to clear cache"
          /\ UNCHANGED storage
  /\ UNCHANGED <<inbox, replied, notPopup>>

\* loadStatistics and loadSavedSummaries have returned: the toast reports
\* success and notifyContentScript awaits chrome.tabs.query
ListsLoaded ==
  /\ clearing = "load"
  /\ toast' = "Cache cleared successfully"
  /\ clearing' = "notify"
  /\ UNCHANGED <<storage, inbox, replied, notPopup>>

\* notifyContentScript sends {action: 'clearCache'} to the active YouTube tab
notifyContentScript ==
  /\ clearing = "notify"
  /\ inbox' = 1
  /\ clearing' = "idle"
  /\ UNCHANGED <<storage, toast, replied, notPopup>>

\* YouTubeInjector.handleMessage for {action: 'clearCache'}: no case of the
\* switch names it, so the default case answers and nothing else happens
handleMessage_clearCache ==
  /\ inbox > 0
  /\ inbox' = 0
  /\ replied' = "Unknown action"
  /\ UNCHANGED <<storage, clearing, toast, notPopup>>

\* the page, the worker and the popup together: the preloader prefetches through
\* the worker, lookups are made, and the popup's clear button is clicked
NextClearCache ==
  \/ scanAndPreloadVisibleVideos
  \/ \E videoId \in VideoIds : PreloaderMessageReceived(videoId)
  \/ \E videoId \in VideoIds : \E summary \in Summaries :
       processVideoSummary(videoId, summary)
  \/ \E r \in BagToSet(executing) : \E response \in BagToSet(outbox) :
       WorkerAnswered(r, response)
  \/ \E r \in BagToSet(executing) : StorageSetDone(r, TRUE)
  \/ \E videoId \in VideoIds : getCachedSummary(videoId)
  \/ \E videoId \in VideoIds : StorageGetDone(videoId, TRUE)
  \/ clearCache
  \/ \E ok \in BOOLEAN : StorageCleared(ok)
  \/ ListsLoaded
  \/ notifyContentScript
  \/ handleMessage_clearCache

\* ------------------------------------------- the content script on a page
\* YouTubeInjector.init constructs one QuickSightUIManager and one VideoPreloader
\* on the same document. The preloader's timer and scroll handler scan the page;
\* the manager's click listener serves the buttons; either one's sendMessage is
\* answered whenever the provider answers it. destroy() of the preloader leaves
\* its scroll handler in place, so the scans go on.
NextPage ==
  \/ initialize
  \/ \E e \in Elements : handleButtonClick(e)
  \/ \E videoId \in VideoIds : \E response \in Answers :
       OnDemandAnswered(videoId, response)
  \/ scanAndPreloadVisibleVideos
  \/ \E r \in BagToSet(executing) : \E response \in Answers :
       MessageAnswered(r, response)
  \/ \E r \in BagToSet(executing) : StorageSetDone(r, TRUE)
  \/ destroy

Init ==
  /\ InitCache /\ InitPreloader /\ InitBackground /\ InitUI
  /\ InitInjector /\ InitTooltip /\ InitPopup

SpecCache == Init /\ [][NextCache]_vars
SpecPreloader == Init /\ [][NextPreloader]_vars
\* the content script loaded on the Scenario A page
InitOnScenarioPage ==
  /\ InitCache /\ InitScenarioA /\ InitBackground /\ InitUI
  /\ InitInjector /\ InitTooltip /\ InitPopup

\* the preloader fresh, or with its memory cache full
InitTiers ==
  /\ InitCache /\ (InitPreloader \/ InitPreloaderFull) /\ InitBackground /\ InitUI
  /\ InitInjector /\ InitTooltip /\ InitPopup

\* the worker fresh, or with its cache full
InitWorker ==
  /\ InitCache /\ InitPreloader /\ (InitBackground \/ InitBackgroundFull) /\ InitUI
  /\ InitInjector /\ InitTooltip /\ InitPopup

SpecScenarioA == InitOnScenarioPage /\ [][NextScenarioA]_vars
SpecBackground == InitWorker /\ [][NextBackground]_vars
SpecSystem == Init /\ [][NextSystem]_vars
SpecUI == Init /\ [][NextUI]_vars
SpecCacheSweep == Init /\ [][NextCacheSweep]_vars
SpecBackgroundAging == InitWorker /\ [][NextBackgroundAging]_vars
SpecViewport == InitOnScenarioPage /\ [][NextViewport]_vars
SpecTiers == InitTiers /\ [][NextTiers]_vars
SpecPage == Init /\ [][NextPage]_vars
SpecInjector == Init /\ [][NextInjector]_vars
SpecTooltip == Init /\ [][NextTooltip]_vars
SpecClearCache == Init /\ [][NextClearCache]_vars
\* the videoIds of the Scenario A page
ScenarioIds == {ScenarioPage[i].videoId : i \in 1..Len(ScenarioPage)}

\* the preloader scanning the Scenario A page while its fetches are answered,
\* with success or with failure; destroy() is not called
NextDrain ==
  \/ scanAndPreloadVisibleVideos
  \/ \E r \in BagToSet(executing) : \E response \in Answers :
       MessageAnswered(r, response)
  \/ \E r \in BagToSet(executing) : StorageSetDone(r, TRUE)

\* every dispatched fetch settles: the message of each fetch is answered, and the
\* chrome.storage.local.set of each fetch comes back
SpecDrain ==
  /\ InitOnScenarioPage
  /\ [][NextDrain]_vars
  /\ \A k \in ScenarioIds :
       WF_vars(\E r \in BagToSet(executing) : \E response \in Answers :
                 r.videoId = k /\ MessageAnswered(r, response))
  /\ \A k \in ScenarioIds :
       WF_vars(\E r \in BagToSet(executing) :
                 r.videoId = k /\ StorageSetDone(r, TRUE))

\* The preloader with what its environment guarantees: chrome.storage.local.set
\* comes back, so a fetch that was answered returns. Nothing makes the provider
\* answer a message, and no scan settles a fetch.
SpecPreloaderLive ==
  /\ Init
  /\ [][NextScenarioA]_vars
  /\ WF_vars(\E r \in BagToSet(executing) : StorageSetDone(r, TRUE))

\* ------------------------------------------------ claims on QuickSightCache
\* C3: get(k) never returns a value whose age exceeds its ttl; when get meets such
\* an entry it deletes it, returns null, and the store holds one entry less.
C3_GetNeverReturnsExpired ==
  ret.op = "get" =>
    /\ (ret.result # Null => ret.hadKey /\ ~ret.expired)
    /\ (ret.expired => /\ ret.result = Null
                       /\ ret.key \notin DOMAIN qsCache
                       /\ ret.removed = {ret.key}
                       /\ ret.delta = -1)

\* a get that met an expired entry
C3_Witness == ret.op = "get" /\ ret.expired /\ ret.result = Null /\ ret.delta = -1

\* C4: the number of stored entries never exceeds maxSize.
C4_SizeNeverExceedsMaxSize == Cardinality(DOMAIN qsCache) <= maxSize

\* C5: set(k, v) with k absent and the store at capacity evicts exactly one entry,
\* one whose last access time is the oldest stored; set on a stored key evicts
\* nothing.
C5_SetEvictsExactlyOneLRU ==
  ret.op = "set" =>
    IF ~ret.hadKey /\ ret.wasFull
    THEN Cardinality(ret.removed) = 1 /\ ret.removedOldest /\ ret.delta = 0
    ELSE ret.removed = {}
\* --------------------------------------------------- claims on VideoPreloader
\* number of requests for videoId k in the request queue
QueuedFor(k) == Cardinality({i \in 1..Len(requestQueue) : requestQueue[i].videoId = k})

\* number of processVideoRequest calls for videoId k that have not returned
ExecutingFor(k) ==
  LET rs == {r \in BagToSet(executing) : r.videoId = k}
      RECURSIVE Sum(_)
      Sum(S) == IF S = {} THEN 0
                ELSE LET r == CHOOSE x \in S : TRUE
                     IN CopiesIn(r, executing) + Sum(S \ {r})
  IN Sum(rs)

\* C1: for every videoId, at most one fetch is queued or executing at any time.
C1_AtMostOneFetchPerKey ==
  \A k \in VideoIds : QueuedFor(k) + ExecutingFor(k) <= 1

\* C6: activeRequests stays between 0 and maxConcurrentRequests and counts the
\* executing fetches exactly; requests are dispatched only into free slots.
C6_ActiveWithinCeiling ==
  /\ activeRequests \in 0..maxConcurrentRequests
  /\ activeRequests = BagCardinality(executing)
  /\ lastTurn.dispatched # <<>> =>
       /\ lastTurn.activeWas - (IF lastTurn.outcome = "none" THEN 0 ELSE 1)
            + Len(lastTurn.dispatched) = activeRequests
       /\ activeRequests <= maxConcurrentRequests

\* every slot taken while a request waits in the queue
C6_Witness == activeRequests = maxConcurrentRequests /\ Len(requestQueue) > 0

\* the first entry of s with the highest priority
FirstMax(s) ==
  LET i == CHOOSE j \in 1..Len(s) :
             /\ \A l \in 1..Len(s) : s[l].priority <= s[j].priority
             /\ \A l \in 1..(j - 1) : s[l].priority < s[j].priority
  IN s[i]

\* queue holds its requests by descending priority, and those of one priority in
\* the order arrived holds them
IsOrdered(queue, arrived) ==
  /\ \A i, j \in 1..Len(queue) : i < j => queue[i].priority >= queue[j].priority
  /\ \A p \in {queue[i].priority : i \in 1..Len(queue)} :
       SelectSeq(queue, LAMBDA q : q.priority = p) =
       SelectSeq(arrived, LAMBDA q : q.priority = p)
  /\ Len(queue) = Len(arrived)

\* the batch of Scenario A: keys a, b, c, d, e with priorities 10, 5, 8, 1, 9
ScenarioBatch ==
  << [videoId |-> "a", priority |-> 10], [videoId |-> "b", priority |-> 5],
     [videoId |-> "c", priority |-> 8], [videoId |-> "d", priority |-> 1],
     [videoId |-> "e", priority |-> 9] >>

VideoIdsOf(s) == [i \in 1..Len(s) |-> s[i].videoId]

\* C7: requests leave the queue by descending priority, first come first served
\* among equal priorities: each request dispatched is the first of the highest
\* priority among those queued at that moment, and only into a free slot. The
\* Scenario A batch, queued on an idle preloader, has a, e, c dispatched and b, d
\* left in the queue.
C7_DispatchByPriorityFifo ==
  /\ IsOrdered(requestQueue, arrival)
  /\ \A i \in 1..Len(lastTurn.dispatched) :
       lastTurn.dispatched[i] =
         FirstMax(RemoveAll(lastTurn.before, SubSeq(lastTurn.dispatched, 1, i - 1)))
  /\ (Len(requestQueue) > 0 => activeRequests >= maxConcurrentRequests)
  /\ (lastTurn.before = ScenarioBatch /\ lastTurn.activeWas = 0 =>
        /\ VideoIdsOf(lastTurn.dispatched) = <<"a", "e", "c">>
        /\ VideoIdsOf(requestQueue) = <<"b", "d">>)

\* Scenario A has just been queued
C7_Witness ==
  /\ lastTurn.before = ScenarioBatch /\ lastTurn.activeWas = 0
  /\ VideoIdsOf(lastTurn.dispatched) = <<"a", "e", "c">>
  /\ VideoIdsOf(requestQueue) = <<"b", "d">>
  /\ activeRequests = maxConcurrentRequests

\* two requests of one priority wait in the queue
C7_TieQueued ==
  \E i, j \in 1..Len(requestQueue) :
    i < j /\ requestQueue[i].priority = requestQueue[j].priority
          /\ requestQueue[i].videoId # requestQueue[j].videoId

\* C8: a videoId is in processingQueue if and only if a fetch for it is in
\* requestQueue or executing.
C8_PendingIffQueuedOrExecuting ==
  \A k \in VideoIds : k \in processingQueue <=> QueuedFor(k) + ExecutingFor(k) > 0

\* C9: a failed fetch releases its slot, loses its pending entry and leaves the
\* scheduler running: the freed slot goes to the head of the queue, and no
\* request waits while a slot is free.
C9_FailureReleasesAndContinues ==
  lastTurn.outcome = "failed" =>
    /\ lastTurn.settled \notin processingQueue
    /\ activeRequests = lastTurn.activeWas - 1 + Len(lastTurn.dispatched)
    /\ activeRequests = BagCardinality(executing)
    /\ (lastTurn.before # <<>> => Len(lastTurn.dispatched) = 1)
    /\ (Len(requestQueue) > 0 => activeRequests = maxConcurrentRequests)

\* a fetch failed while a request waited, and that request was dispatched
C9_Witness == lastTurn.outcome = "failed" /\ Len(lastTurn.dispatched) = 1
\* ----------------------------------------------- claims on QuickSightBackground
\* C2: of the getVideoSummary messages for one videoId handled while the cache
\* has no entry for it, exactly one calls processVideoSummary, never more than
\* one call is in flight, and every answer carries the same data: the summary
\* that call resolved with, which is the one the cache then holds.
C2_OneInvocationSamePayload ==
  /\ \A key \in DOMAIN cycle :
       cycle[key].asked >= 1 =>
         /\ cycle[key].invoked = 1
         /\ cycle[key].answered <= cycle[key].asked
         /\ Cardinality(cycle[key].payloads) <= 1
         /\ key \in BgKeys(bgCache) =>
              /\ cycle[key].answered = cycle[key].asked
              /\ cycle[key].payloads = {BgGet(bgCache, key).data}
  /\ \A videoId \in VideoIds :
       /\ CopiesIn([videoId |-> videoId, role |-> "first"], handlers) =
            (IF pendingKey(videoId) \in pendingRequests THEN 1 ELSE 0)
       /\ pendingKey(videoId) \in pendingRequests =>
            cacheKey(videoId) \notin BgKeys(bgCache)
       /\ CopiesIn([videoId |-> videoId, role |-> "joined"], handlers) > 0 =>
            pendingKey(videoId) \in pendingRequests

\* three messages for one video met an empty cache and all three were answered
C2_Witness ==
  \E key \in DOMAIN cycle :
    /\ cycle[key].asked = MaxCallers /\ cycle[key].answered = cycle[key].asked
    /\ cycle[key].invoked = 1

\* a video whose entry was evicted is asked for again by two messages
C2_WitnessAfterEviction ==
  /\ Len(bgCache) = maxCacheSize /\ bgCache[1].key # cacheKey("a")
  /\ cacheKey("a") \in BgKeys(bgCache)
  /\ CycleOf(cacheKey("a")).asked >= 2

\* C10: the preloader's memory cache, chrome.storage and the worker's cache hold
\* an entry for a videoId only if a generation for it succeeded.
C10_NoEntryWithoutSuccess ==
  \A videoId \in VideoIds :
    (\/ videoId \in DOMAIN plCache
     \/ videoId \in DOMAIN storage
     \/ cacheKey(videoId) \in BgKeys(bgCache)) => videoId \in succeeded

\* each tier holds an entry made of the object generateErrorSummary built
C10_ErrorSummaryInEveryTier ==
  \E videoId \in VideoIds :
    /\ videoId \notin succeeded
    /\ videoId \in DOMAIN plCache /\ videoId \in DOMAIN storage
    /\ cacheKey(videoId) \in BgKeys(bgCache)
    /\ plCache[videoId].summary.summary = "errorSummary"
\* ------------------------------------------- claims on QuickSightCache.has
\* C20: has(k) answers true exactly when k is stored and its age does not exceed
\* its ttl, which is when get(k) hits; it deletes k when k is stored and expired
\* and changes nothing else: the other entries, every accessCount, the access
\* times of the entries that stay, hitCount and missCount are as before.
C20_HasSameRuleNoBookkeeping ==
  [][ret'.op = "has" =>
       LET k == ret'.key
           stored == k \in DOMAIN qsCache
           fresh == stored /\ ~(now - qsCache[k].timestamp > qsCache[k].ttl)
       IN /\ ret'.result = (IF fresh THEN "true" ELSE "false")
          /\ DOMAIN qsCache' = (DOMAIN qsCache) \ (IF stored /\ ~fresh THEN {k} ELSE {})
          /\ \A j \in DOMAIN qsCache' : qsCache'[j] = qsCache[j]
          /\ accessTimes' = SelectSeq(accessTimes, LAMBDA e : e[1] \in DOMAIN qsCache')
          /\ hitCount' = hitCount /\ missCount' = missCount]_vars

\* has met an expired entry and deleted it
C20_Witness ==
  ret.op = "has" /\ ret.expired /\ ret.result = "false" /\ ret.removed = {ret.key}

\* has answered true for an entry set at an earlier reading of the clock
C20_HasHit ==
  ret.op = "has" /\ ret.result = "true" /\ qsCache[ret.key].timestamp < now
\* ------------------------------------------- claims on QuickSightUIManager
\* C11: a click on the button of an Item whose status is error puts the Item
\* back to loading and sends a new request.
C11_ErrorItemReloadsOnClick ==
  uiTurn.op = "click" /\ uiTurn.statusWas = "error" =>
    /\ uiTurn.sent
    /\ StatusOf(videoRegistry, uiTurn.videoId) = "loading"

\* the status changes the state machine allows
Transitions == { <<"not_ready", "loading">>, <<"loading", "ready">>,
                 <<"loading", "error">>, <<"ready", "loading">>,
                 <<"error", "loading">> }

\* C12: every status written to an Item is one the state machine allows after
\* the status the Item held, an Item registered by the update itself included.
C12_StatusChangesFollowStateMachine ==
  uiTurn.applied > 0 => <<uiTurn.from, uiTurn.status>> \in Transitions

\* C17: a page scan or a MutationObserver callback leaves every Item the
\* registry holds as it is, and every Item it adds is not_ready with no summary.
C17_RegistrationIdempotent ==
  [][uiTurn'.op \in {"scan", "mutation"} =>
       /\ \A v \in DOMAIN videoRegistry :
            v \in DOMAIN videoRegistry' /\ videoRegistry'[v] = videoRegistry[v]
       /\ \A v \in (DOMAIN videoRegistry') \ (DOMAIN videoRegistry) :
            /\ videoRegistry'[v].status = "not_ready"
            /\ videoRegistry'[v].quickSummary = NoData]_vars

\* a scan processed a second element of a video whose Item holds a summary
C17_Witness ==
  /\ uiTurn.op = "scan"
  /\ \E e \in processedElements :
       /\ Dom[e].videoId \in DOMAIN videoRegistry
       /\ videoRegistry[Dom[e].videoId].element # e
       /\ videoRegistry[Dom[e].videoId].status = "ready"

\* C18: a status update for a video the registry no longer holds changes
\* nothing: it writes no status and the registry holds no Item for the video
\* afterwards.
C18_LateUpdateIsNoOp ==
  uiTurn.op = "update" /\ uiTurn.statusWas = "unknown" =>
    /\ uiTurn.applied = 0
    /\ uiTurn.videoId \notin DOMAIN videoRegistry

\* C19: a status update for a video the registry does not hold searches the
\* document once. When it finds no element it leaves the registry, the
\* processed set and the document as they are; when it finds one it registers
\* the video with that element and writes the status once.
C19_RediscoveryOnceThenApplied ==
  [][uiTurn'.op = "update" /\ uiTurn'.statusWas = "unknown" =>
       LET v == uiTurn'.videoId
           e == FindElement(v)
       IN /\ uiTurn'.rediscoveries = 1
          /\ IF e = 0
             THEN /\ uiTurn'.applied = 0
                  /\ UNCHANGED <<videoRegistry, processedElements, injected>>
             ELSE /\ uiTurn'.applied = 1 /\ uiTurn'.from = "not_ready"
                  /\ DOMAIN videoRegistry' = (DOMAIN videoRegistry) \cup {v}
                  /\ videoRegistry'[v].element = e
                  /\ videoRegistry'[v].status = uiTurn'.status
                  /\ \A w \in DOMAIN videoRegistry :
                       videoRegistry'[w] = videoRegistry[w]]_vars

\* an update for an unknown video found its element and wrote the status
C19_Witness ==
  /\ uiTurn.op = "update" /\ uiTurn.statusWas = "unknown"
  /\ uiTurn.found /\ uiTurn.applied = 1
  /\ StatusOf(videoRegistry, uiTurn.videoId) = uiTurn.status

\* an update for an unknown video found no element and was dropped
C19_Discarded ==
  /\ uiTurn.op = "update" /\ uiTurn.statusWas = "unknown"
  /\ ~uiTurn.found /\ uiTurn.rediscoveries = 1 /\ uiTurn.applied = 0

\* ------------------------------------- claims on the content script's page
\* C13: when the scheduler dispatches a prefetch for a registered video its Item
\* becomes loading, and when the prefetch settles the Item becomes ready (success)
\* or error (failure): a registered video whose prefetch succeeded is not left
\* not_ready.
C13_PrefetchDrivesItemStatus ==
  [][executing' # executing =>
       \A v \in DOMAIN videoRegistry :
         LET dispatched == \E i \in DOMAIN lastTurn'.dispatched :
                              lastTurn'.dispatched[i].videoId = v
             settled == lastTurn'.settled = v
         IN /\ dispatched /\ ~settled => StatusOf(videoRegistry', v) = "loading"
            /\ settled /\ ~dispatched /\ lastTurn'.outcome = "ok" =>
                 StatusOf(videoRegistry', v) = "ready"
            /\ settled /\ ~dispatched /\ lastTurn'.outcome = "failed" =>
                 StatusOf(videoRegistry', v) = "error"]_vars

\* C16: an on-demand request (a click on a not_ready Item) is with the provider
\* when the click's turn ends, whatever the preloader holds: every prefetch that
\* waited in the request queue still waits, and no slot of the preloader is used.
C16_OnDemandSentAheadOfQueue ==
  [][/\ uiTurn'.op = "click" /\ uiTurn'.sent
     /\ StatusOf(videoRegistry, uiTurn'.videoId) = "not_ready"
     /\ StatusOf(videoRegistry', uiTurn'.videoId) = "loading"
     => /\ onDemand' = onDemand (+) SetToBag({uiTurn'.videoId})
        /\ requestQueue' = requestQueue
        /\ executing' = executing
        /\ activeRequests' = activeRequests]_vars

\* the click came while every slot was taken and a prefetch waited in the queue,
\* and its message is on its way
C16_Witness ==
  /\ uiTurn.op = "click" /\ uiTurn.sent /\ uiTurn.queued > 0
  /\ BagIn(uiTurn.videoId, onDemand)

\* the click was for a video whose own prefetch waits in the queue
C16_OwnPrefetchWaits ==
  /\ C16_Witness
  /\ QueuedFor(uiTurn.videoId) > 0 /\ Len(requestQueue) = uiTurn.queued

\* C15: retries are not automatic. Once the fetch of a video has failed and no
\* other fetch of it is queued or executing, a step of the preloader (a scan, an
\* intersection callback, a settlement) queues or dispatches no new fetch of it;
\* the preloader takes no user request, so each of its steps is background work.
C15_NoRefetchByLaterScan ==
  [][lastTurn.outcome = "failed"
       /\ QueuedFor(lastTurn.settled) + ExecutingFor(lastTurn.settled) = 0
     => (QueuedFor(lastTurn.settled) + ExecutingFor(lastTurn.settled))' = 0]_vars

\* the videoIds of the small page
SmallPageIds == {SmallPage[i].videoId : i \in 1..Len(SmallPage)}

\* number of processVideoRequest calls for videoId k that wait for their answer
SentFor(k) ==
  LET r == [videoId |-> k, stage |-> "sent", entry |-> NoEntry]
  IN IF BagIn(r, executing) THEN CopiesIn(r, executing) ELSE 0

\* C14: every dispatched fetch is bounded by a timeout: a fetch that waits for an
\* answer stops waiting, answered or not, and gives its slot back.
C14_DispatchedFetchIsBounded ==
  \A k \in SmallPageIds : (SentFor(k) > 0) ~> (SentFor(k) = 0)

\* ------------------------------------------------ claims on cleanup and tiers
\* C21 as amended: cleanup deletes exactly the entries whose age exceeds their ttl
\* at the time of the call, returns their count and leaves every other entry and
\* the counters untouched; a get or has of any key at that time or later, with no
\* set in between, finds what it would have found had cleanup not run.
C21_CleanupDeletesExactlyExpired ==
  [][ret'.op = "cleanup" =>
       LET expired == {k \in DOMAIN qsCache : now - qsCache[k].timestamp > qsCache[k].ttl}
       IN /\ DOMAIN qsCache' = (DOMAIN qsCache) \ expired
          /\ ret'.result = Cardinality(expired)
          /\ \A k \in DOMAIN qsCache' : qsCache'[k] = qsCache[k]
          /\ accessTimes' = SelectSeq(accessTimes, LAMBDA e : e[1] \in DOMAIN qsCache')
          /\ hitCount' = hitCount /\ missCount' = missCount
          /\ \A k \in CacheKeys, t \in now..(MaxTime + 1) :
               Lookup(qsCache', k, t) = Lookup(qsCache, k, t)]_vars

\* cleanup ran on a store that held an expired entry beside one that was not
C21_Witness ==
  /\ ret.op = "cleanup" /\ ret.result = 1 /\ Cardinality(ret.removed) = 1
  /\ \E k \in DOMAIN qsCache : ~IsExpired(qsCache[k], now) /\ qsCache[k].timestamp < now

\* C21 as stated: the result of any later get or has is the same whether or not
\* cleanup ran, a get that follows a set of another key included.
C21_LaterLookupsUnaffectedByCleanup ==
  [][ret'.op = "cleanup" =>
       \A k1 \in CacheKeys, v \in Values, ttl \in MixedTTLs, k2 \in CacheKeys :
         Lookup(SetStore([cache |-> qsCache', times |-> accessTimes'],
                         k1, v, ttl, now).cache, k2, now)
           = Lookup(SetStore([cache |-> qsCache, times |-> accessTimes],
                             k1, v, ttl, now).cache, k2, now)]_vars

\* C24: a getVideoSummary message answered from the worker's cache is never
\* answered with an entry whose age exceeds its ttl.
C24_CacheHitNeverExpired ==
  [][\A response \in BagToSet(outbox') :
       /\ handlers' = handlers
       /\ CopiesIn(response, outbox') > CopiesIn(response, outbox)
       => LET entry == BgGet(bgCache, cacheKey(response.videoId))
          IN ~(now - entry.timestamp > entry.ttl)]_vars

\* C26: the answer served from the worker's cache carries, as its data, the
\* summary that was generated and stored: the data of the entry.
C26_CacheHitCarriesStoredSummary ==
  [][\A response \in BagToSet(outbox') :
       /\ handlers' = handlers
       /\ CopiesIn(response, outbox') > CopiesIn(response, outbox)
       => response.data = BgGet(bgCache, cacheKey(response.videoId)).data]_vars

\* C22 as amended: getCachedSummary(k) answers from the memory tier when that
\* holds an unexpired entry for k, and reads chrome.storage only when it does not;
\* when the read comes back with an unexpired entry it returns that entry's
\* summary and the memory tier holds the entry afterwards; it reports a miss, and
\* leaves the memory tier alone, when the read fails or brings no unexpired entry.
C22_ReadThrough ==
  [][\A k \in VideoIds :
       /\ got' # got /\ got'.videoId = k /\ reading' = reading =>
            /\ k \in DOMAIN plCache /\ IsFresh(plCache[k], now)
            /\ got'.tier = "memory" /\ got'.result = plCache[k].summary
            /\ plCache' = plCache
       /\ k \in reading' \ reading =>
            ~(k \in DOMAIN plCache /\ IsFresh(plCache[k], now))
       /\ k \in reading \ reading' =>
            IF ~got'.failed /\ k \in DOMAIN storage /\ IsFresh(storage[k], now)
            THEN /\ got'.tier = "storage" /\ got'.result = storage[k].summary
                 /\ plCache' = MapSet(plCache, k, storage[k])
            ELSE /\ got'.tier = "none" /\ got'.result = NoData
                 /\ plCache' = plCache]_vars

\* a call found nothing in the memory tier, read the entry from chrome.storage
\* and left it in the memory tier
C22_Witness ==
  /\ got.tier = "storage" /\ got.result = Payload("summary")
  /\ got.videoId \in DOMAIN plCache /\ got.videoId \in DOMAIN storage
  /\ plCache[got.videoId] = storage[got.videoId]

\* C22 as stated: getCachedSummary(k) reports a miss only when neither tier holds
\* an unexpired entry for k.
C22_MissOnlyWhenNeitherTierHolds ==
  [][\A k \in VideoIds :
       k \in reading \ reading' /\ got'.tier = "none" =>
         /\ ~(k \in DOMAIN plCache' /\ IsFresh(plCache'[k], now))
         /\ ~(k \in DOMAIN storage' /\ IsFresh(storage'[k], now))]_vars

\* C25: preloadVideos takes a video whose memory-cache entry has expired, by the
\* test of getCachedSummary, for uncached: a scan that sees the video, with no
\* fetch of it queued or executing, queues a new fetch.
C25_ExpiredEntryIsRefetched ==
  [][scanAndPreloadVisibleVideos =>
       \A e \in {x \in Elements : isElementVisible(x)} :
         LET k == Dom[e].videoId IN
         /\ k \in DOMAIN plCache /\ ~IsFresh(plCache[k], now)
         /\ k \notin processingQueue
         => (QueuedFor(k) + ExecutingFor(k))' > QueuedFor(k) + ExecutingFor(k)]_vars

\* C27: when the memory cache evicts on overflow, an entry that was read more
\* recently than another is not evicted before it: the entry the latest lookup
\* hit is not removed while an entry stored before that lookup, and not read,
\* stays.
C27_EvictionSparesMoreRecentlyUsed ==
  [][\A k \in (DOMAIN plCache) \ (DOMAIN plCache') :
       ~(/\ got.tier # "none" /\ got.videoId = k /\ plCache[k].timestamp <= got.at
         /\ \E j \in (DOMAIN plCache') \cap OtherIds :
              plCache'[j].timestamp < got.at)]_vars

\* C28: with no processVideoRequest between its cache.set and its
\* manageCacheSize, the memory cache holds at most cacheLimit entries.
C28_MemoryCacheWithinLimit ==
  (\A r \in BagToSet(executing) : r.stage # "storing") =>
    Cardinality(DOMAIN plCache) <= cacheLimit

\* C23: the priority is a non-increasing function of the distance between the
\* element's centre and the viewport's centre, and stays within its range: of two
\* elements the closer one never scores lower, in the preloader (0..1000) and,
\* with the other signals equal, in the optimizer (0..180 points); each queued
\* request carries the score of its element.
C23_PriorityMonotoneAndBounded ==
  /\ \A e1, e2 \in Elements :
       /\ calculatePriority(e1) \in 0..1000
       /\ DistanceFromCenter(e1) <= DistanceFromCenter(e2) =>
            calculatePriority(e1) >= calculatePriority(e2)
       /\ \A views \in ViewSignals, recency \in RecencySignals :
            /\ Optimizer_calculatePriority(e1, views, recency) \in 0..1800
            /\ DistanceFromCenter(e1) <= DistanceFromCenter(e2) =>
                 Optimizer_calculatePriority(e1, views, recency)
                   >= Optimizer_calculatePriority(e2, views, recency)
  /\ \A i \in 1..Len(lastTurn.dispatched) :
       lastTurn.dispatched[i].priority \in 0..1000

\* a scan queued the page's last element at the viewport's centre with the
\* highest score, while the elements far from the centre score 0
C23_Witness ==
  /\ Len(lastTurn.dispatched) > 0
  /\ lastTurn.dispatched[1].priority = 1000
  /\ calculatePriority(Len(Dom)) = 1000 /\ calculatePriority(1) = 0
  /\ DistanceFromCenter(1) > 1000

\* two elements at different distances inside the range, scored in that order
C23_CloserScoresHigher ==
  /\ DistanceFromCenter(1) < DistanceFromCenter(2)
  /\ calculatePriority(1) > calculatePriority(2) /\ calculatePriority(2) > 0

\* ------------------------------------------------ claims on YouTubeInjector
\* C29: across init(), destroy() and the navigation's destroy-then-init, at most
\* one initialization sequence is in progress, and at most one VideoPreloader and
\* one UI manager instance are live.
C29_SingleInitialization ==
  /\ Cardinality(InProgress) <= 1
  /\ Cardinality(liveUIManagers) <= 1
  /\ Cardinality(livePreloaders) <= 1

C31_TooltipShowsItsTargetOnly ==
  isVisible /\ pane.kind = "summary" => pane.videoId = currentVideoId

\* ------------------------------------------------ claims on QuickSightPopup
\* a lookup of videoId k in the preloader's memory cache hits
HitsMemory(k) == k \in DOMAIN plCache /\ IsFresh(plCache[k], now)

\* a lookup of videoId k in persistent storage hits
HitsStorage(k) == k \in DOMAIN storage /\ IsFresh(storage[k], now)

\* a getVideoSummary message for videoId k is answered from the worker's cache
HitsWorker(k) == cacheKey(k) \in BgKeys(bgCache)

\* no fetch of videoId k is queued or on its way
NoFetchOf(k) == QueuedFor(k) = 0 /\ ExecutingFor(k) = 0

\* C32: after clearCache has completed and reported 'Cache cleared
\* successfully', and the content script has handled its notification, a lookup
\* of any key misses in every tier (persistent storage, the preloader's memory
\* cache, the worker's cache) until that key is fetched again. A key is taken as
\* fetched again once persistent storage, which the clearing emptied, holds it
\* or a fetch of it is queued or on its way.
C32_ClearedKeyMissesInEveryTier ==
  toast = "Cache cleared successfully" /\ clearing = "idle" /\ inbox = 0 =>
    \A k \in VideoIds :
      NoFetchOf(k) /\ ~HitsStorage(k) => ~HitsMemory(k) /\ ~HitsWorker(k)

====
